---- MODULE Spec2Model ----
(***************************************************************************)
(* HTCP: the server's per-connection state machine (htcp/server.py), its   *)
(* two admission semaphores, the handler registry (htcp/request_handler.py)*)
(* the package codec (htcp/backend/proto.py), the session crypto           *)
(* (htcp/backend/dh_encryption.py) and the synchronous client              *)
(* (htcp_client/client.py).                                                *)
(*                                                                         *)
(* One action is one run of a coroutine from one suspension point (an      *)
(* await that blocks) to the next.  Socket writes are taken to complete.   *)
(***************************************************************************)
EXTENDS Integers, Sequences, FiniteSets, TLC

(***************************************************************************)
(* Bounds of the model.                                                    *)
(***************************************************************************)
\* connections the admission specification opens
NConn == 3
\* largest max_connections the admission specification configures
MaxPermits == 2
\* stream items all peers together send in the admission specification
MaxSent == 2
\* stream items the peer sends in the single-connection specification
MaxFrames == 3
\* modulus of the scaled-down Diffie-Hellman group (the code's is 2048 bit)
DH_P == 23
\* calls the program makes on its Client in the client specification
MaxCalls == 3
\* longest content, in bytes, the codec specification encodes
MaxContent == 4
\* largest private exponent of the crypto specification
MaxExp == 4
\* longest plaintext, in bytes, of the crypto specification
MaxPlain == 17
\* most registrations made on one RequestHandler
MaxRegs == 3
\* response frames the socket buffers hold before drain() waits
MaxBuffered == 1

Conns == 1..NConn

(***************************************************************************)
(* Program constants.                                                      *)
(***************************************************************************)
FLAG_ENCRYPTED == 1
FLAG_PASSKEY == 2
FLAG_RESPONSE == 4
DH_G == 2

\* Python's None, for the string-valued optional fields
NONE == "<None>"
\* the value uuid_module.uuid4() returns: no peer chooses it
UUID4 == "<uuid4>"
\* DHEncryption.aes_key is None / the local `encryption` is None
NoKey == <<>>

VARIABLES
    config,                \* Server.config
    handlers,              \* RequestHandler._handlers
    active_connections,    \* Server.active_connections
    connection_semaphore,  \* Server.connection_semaphore
    processing_semaphore,  \* Server.processing_semaphore
    pc,                    \* where each connection's _handle_client task is
    private_key,           \* DHEncryption.private_key of the running handshake
    encryption,            \* _handle_client's local `encryption` (its aes_key)
    package,               \* _handle_client's local `package`
    sent,                  \* what the peer has written to the socket, in order
    nread,                 \* how many of those items the server has consumed
    eof,                   \* the peer has closed its end
    out,                   \* what the server has written to the socket, in order
    handled,               \* the packages RequestHandler.handle was called with
    auth,                  \* what _validate_passkey read and returned
    client,                \* the Client object driving the connection
    unit                   \* the objects a unit-level specification exercises

vars == <<unit, config, handlers, active_connections, connection_semaphore,
          processing_semaphore, pc, private_key, encryption, package,
          sent, nread, eof, out, handled, auth, client>>

\* all but unit: what the unit-level specifications leave alone
conn_vars == <<config, handlers, active_connections, connection_semaphore,
               processing_semaphore, pc, private_key, encryption, package,
               sent, nread, eof, out, handled, auth, client>>

srv_vars == <<unit, config, handlers, active_connections, connection_semaphore,
              processing_semaphore, pc, private_key, encryption, package,
              nread, out, handled, auth>>

(***************************************************************************)
(* Values.                                                                 *)
(***************************************************************************)
Bytes(v) == [t |-> "bytes", v |-> v]
Dict(v) == [t |-> "dict", v |-> v]
B64(v) == [t |-> "b64", v |-> v]

\* Package (dataclass): the fields the connection logic reads
Package(transaction, content, uuid, from_addr, passkey) ==
    [transaction |-> transaction, content |-> content,
     uuid |-> IF uuid = NONE THEN UUID4 ELSE uuid,
     from_addr |-> from_addr, passkey |-> passkey]

NoPackage == [transaction |-> NONE, content |-> Bytes(NONE), uuid |-> NONE,
              from_addr |-> NONE, passkey |-> NONE]

HasFlag(flags, bit) == (flags \div bit) % 2 = 1

(***************************************************************************)
(* Package codec (htcp/backend/proto.py).                                  *)
(*                                                                         *)
(* A frame on the wire is a record: flags is the flags byte, key is NoKey  *)
(* for a plaintext payload and the AES key for a ciphertext, ok says that  *)
(* the payload (once plain) is a JSON object with the keys from_bytes      *)
(* indexes and that the length word matches, body is that object.          *)
(***************************************************************************)
\* base64.b64encode raises TypeError on anything but bytes
CanEncode(p) == p.content.t = "bytes"

to_json(p) ==
    [uuid |-> p.uuid, transaction |-> p.transaction, from |-> p.from_addr,
     content |-> B64(p.content.v), passkey |-> p.passkey]

to_bytes(p, encrypted, is_response) ==
    [raw |-> FALSE,
     flags |-> (IF encrypted THEN FLAG_ENCRYPTED ELSE 0)
               + (IF p.passkey # NONE THEN FLAG_PASSKEY ELSE 0)
               + (IF is_response THEN FLAG_RESPONSE ELSE 0),
     key |-> NoKey, ok |-> TRUE, body |-> to_json(p)]

\* from_bytes raises (length mismatch, UnicodeDecodeError, JSONDecodeError,
\* KeyError, binascii.Error) unless this holds
FromBytesOK(data) ==
    /\ ~data.raw
    /\ data.ok
    /\ data.key = NoKey
    /\ data.body.content.t = "b64"

from_bytes(data) ==
    Package(data.body.transaction, Bytes(data.body.content.v),
            data.body.uuid, data.body.from, data.body.passkey)

is_encrypted(data) == HasFlag(data.flags, FLAG_ENCRYPTED)
is_response(data) == HasFlag(data.flags, FLAG_RESPONSE)
has_passkey(data) == HasFlag(data.flags, FLAG_PASSKEY)

\* json.dumps({"error": error_message}).encode("utf-8")
ErrorJson(error_message) == "{\"error\": \"" \o error_message \o "\"}"

\* `request_uuid if request_uuid else str(uuid4())`: None and "" are falsy
create_error_package(transaction, error_message, request_uuid) ==
    Package(transaction, Bytes(ErrorJson(error_message)),
            IF request_uuid # NONE /\ request_uuid # "" THEN request_uuid ELSE UUID4,
            NONE, NONE)

(***************************************************************************)
(* Session crypto (htcp/backend/dh_encryption.py), on a small group.       *)
(***************************************************************************)
RECURSIVE ModExp(_, _, _)
ModExp(b, e, m) == IF e = 0 THEN 1 % m ELSE (b * ModExp(b, e - 1, m)) % m

\* DHEncryption.get_public_numbers()["public"]
PublicOf(priv) == ModExp(DH_G, priv, DH_P)

\* compute_shared_key: exchange(), then HKDF-SHA256 of the shared secret
compute_shared_key(priv, peer_public_key) ==
    <<"hkdf", ModExp(peer_public_key, priv, DH_P)>>

create_dh_init_message(priv) ==
    [raw |-> TRUE, ok |-> TRUE, type |-> "dh_init", public |-> PublicOf(priv)]

create_dh_reply_message(priv) ==
    [raw |-> TRUE, ok |-> TRUE, type |-> "dh_reply", public |-> PublicOf(priv)]

\* encrypt(payload) and the header rebuilt around it
Encrypt(key, data) == [data EXCEPT !.key = key]

\* decrypt raises (short ciphertext, bad padding) or returns bytes that do not
\* parse unless the payload was encrypted under the same key
DecryptOK(key, data) == data.key = key
Decrypt(key, data) == [data EXCEPT !.key = NoKey]

(***************************************************************************)
(* Handler registry (htcp/request_handler.py).  A handler is known by what *)
(* it does: "echo" returns the request's content, "raise" raises, "number" *)
(* returns an int.                                                         *)
(***************************************************************************)
Raised(message) == [raised |-> TRUE, value |-> Bytes(message)]
Returned(value) == [raised |-> FALSE, value |-> value]

\* RequestHandler.handle(request)
handle(registry, request) ==
    IF request.transaction \notin DOMAIN registry
    THEN Raised("Unknown transaction: " \o request.transaction)
    ELSE LET handler == registry[request.transaction] IN
         CASE handler = "echo" -> Returned(request.content)
           [] handler = "raise" -> Raised("handler failed")
           [] OTHER -> Raised("Handler must return bytes, got int")

(***************************************************************************)
(* asyncio.Semaphore as `async with` drives it: value is _value, waiters   *)
(* the _waiters deque, granted the waiters whose future is already set.    *)
(***************************************************************************)
NewSemaphore(n) == [value |-> n, waiters |-> <<>>, granted |-> {}]

SemLocked(s) == s.value = 0 \/ s.waiters # <<>>

\* a release that wakes no waiter
SemWakeNone(s) == s

\* _wake_up_next
SemWake(s) ==
    LET idx == {i \in 1..Len(s.waiters) : s.waiters[i] \notin s.granted} IN
    IF idx = {} THEN s
    ELSE LET i == CHOOSE j \in idx : \A k \in idx : j <= k IN
         [s EXCEPT !.value = @ - 1, !.granted = @ \cup {s.waiters[i]}]

\* a release() that returns the permit and wakes no waiter
SemReleaseAsleep(s) == [s EXCEPT !.value = @ + 1]

\* release()
SemRelease(s) == SemWake([s EXCEPT !.value = @ + 1])

\* an acquire() that takes no permit
SemTakeNone(s) == s

\* acquire() when not locked
SemTake(s) == [s EXCEPT !.value = @ - 1]

\* acquire() when locked: queue behind the others
SemEnqueue(s, c) == [s EXCEPT !.waiters = Append(@, c)]

RECURSIVE SemWakeAll(_)
SemWakeAll(s) ==
    IF s.value > 0 /\ SemWake(s) # s THEN SemWakeAll(SemWake(s)) ELSE s

\* acquire() resumed by its future: leave the deque, pass spare permits on
SemResume(s, c) ==
    SemWakeAll([s EXCEPT !.waiters = SelectSeq(@, LAMBDA w : w # c),
                         !.granted = @ \ {c}])

(***************************************************************************)
(* Server (htcp/server.py).                                                *)
(***************************************************************************)
\* Config.connect_passkey = False
NoPasskey == "<False>"

\* `if self.config.connect_passkey:`
PasskeyRequired == config.connect_passkey # NoPasskey /\ config.connect_passkey # ""

\* f"{self.config.host}:{self.config.port}"
ServerAddr == config.host \o ":" \o config.port

HasInput(c) == nread[c] < Len(sent[c])
AtEOF(c) == nread[c] = Len(sent[c]) /\ eof[c]
\* readexactly returns or raises IncompleteReadError
Readable(c) == HasInput(c) \/ AtEOF(c)
NextItem(c) == sent[c][nread[c] + 1]
Consume(c) == nread' = [nread EXCEPT ![c] = IF HasInput(c) THEN @ + 1 ELSE @]

\* a _read_package that refuses frames sent in the clear once a key exists
ReadOKStrict(c) ==
    /\ HasInput(c)
    /\ ~NextItem(c).raw
    /\ IF encryption[c] # NoKey
       THEN /\ is_encrypted(NextItem(c))
            /\ DecryptOK(encryption[c], NextItem(c))
            /\ FromBytesOK(Decrypt(encryption[c], NextItem(c)))
       ELSE FromBytesOK(NextItem(c))

\* _read_package returns a Package (not None)
ReadOK(c) ==
    /\ HasInput(c)
    /\ ~NextItem(c).raw
    /\ IF encryption[c] # NoKey /\ is_encrypted(NextItem(c))
       THEN /\ DecryptOK(encryption[c], NextItem(c))
            /\ FromBytesOK(Decrypt(encryption[c], NextItem(c)))
       ELSE FromBytesOK(NextItem(c))

\* the Package _read_package returns
read_package(c) ==
    IF encryption[c] # NoKey /\ is_encrypted(NextItem(c))
    THEN from_bytes(Decrypt(encryption[c], NextItem(c)))
    ELSE from_bytes(NextItem(c))

\* _send_package: the frame it writes
send_package(pkg, enc) ==
    IF enc # NoKey THEN Encrypt(enc, to_bytes(pkg, TRUE, TRUE))
    ELSE to_bytes(pkg, FALSE, TRUE)

\* _perform_handshake returns an encryption (not None)
HandshakeOK(c) ==
    /\ HasInput(c)
    /\ NextItem(c).raw
    /\ NextItem(c).ok
    /\ NextItem(c).type = "dh_reply"

\* any _auth package passes
validate_passkey_any(present, pkg) == present /\ pkg.transaction = "_auth"

\* _validate_passkey: `package.content.get("passkey")` raises AttributeError
\* on bytes, which the `except Exception` turns into False
validate_passkey(present, pkg) ==
    /\ present
    /\ pkg.transaction = "_auth"
    /\ pkg.content.t = "dict"
    /\ pkg.content.v = config.connect_passkey

\* the passkey gate left out
AfterHandshakeNoGate == "serving"

\* where _handle_client waits next once the handshake is behind it
AfterHandshake == IF PasskeyRequired THEN "auth" ELSE "serving"

\* _handle_client from the connection permit to its first blocking await
AfterAcquire(c, a) ==
    /\ active_connections' = active_connections + 1
    /\ IF config.dh_encryption
       THEN /\ private_key' = [private_key EXCEPT ![c] = a]
            /\ out' = [out EXCEPT ![c] = Append(@, create_dh_init_message(a))]
            /\ pc' = [pc EXCEPT ![c] = "handshake"]
       ELSE /\ pc' = [pc EXCEPT ![c] = AfterHandshake]
            /\ UNCHANGED <<private_key, out>>

\* asyncio starts _handle_client for an accepted connection:
\* `async with self.connection_semaphore`
Connect(c, a) ==
    /\ pc[c] = "new"
    /\ IF ~SemLocked(connection_semaphore)
       THEN /\ connection_semaphore' = SemTake(connection_semaphore)
            /\ AfterAcquire(c, a)
       ELSE /\ connection_semaphore' = SemEnqueue(connection_semaphore, c)
            /\ pc' = [pc EXCEPT ![c] = "conn_wait"]
            /\ UNCHANGED <<active_connections, private_key, out>>
    /\ UNCHANGED <<unit, config, handlers, processing_semaphore, encryption, package,
                   sent, nread, eof, handled, auth, client>>

\* a waiter of the connection semaphore resumes with its permit
ConnResume(c, a) ==
    /\ pc[c] = "conn_wait"
    /\ c \in connection_semaphore.granted
    /\ connection_semaphore' = SemResume(connection_semaphore, c)
    /\ AfterAcquire(c, a)
    /\ UNCHANGED <<unit, config, handlers, processing_semaphore, encryption, package,
                   sent, nread, eof, handled, auth, client>>

\* _perform_handshake resumes from _receive_raw
Handshake(c) ==
    /\ pc[c] = "handshake"
    /\ Readable(c)
    /\ Consume(c)
    /\ IF HandshakeOK(c)
       THEN /\ encryption' = [encryption EXCEPT ![c] =
                   compute_shared_key(private_key[c], NextItem(c).public)]
            /\ pc' = [pc EXCEPT ![c] = AfterHandshake]
       ELSE /\ pc' = [pc EXCEPT ![c] = "closing"]
            /\ UNCHANGED encryption
    /\ UNCHANGED <<unit, config, handlers, active_connections, connection_semaphore,
                   processing_semaphore, private_key, package, sent, eof, out,
                   handled, auth, client>>

\* _validate_passkey resumes from _read_package
Authenticate(c) ==
    /\ pc[c] = "auth"
    /\ Readable(c)
    /\ Consume(c)
    /\ LET pkg == IF ReadOK(c) THEN read_package(c) ELSE NoPackage
           result == validate_passkey(ReadOK(c), pkg)
       IN /\ auth' = [auth EXCEPT ![c] = [done |-> TRUE, package |-> pkg,
                                          result |-> result]]
          /\ pc' = [pc EXCEPT ![c] = IF result THEN "serving" ELSE "closing"]
    /\ UNCHANGED <<unit, config, handlers, active_connections, connection_semaphore,
                   processing_semaphore, private_key, encryption, package,
                   sent, eof, out, handled, client>>

\* the frame skipped and the next one read
AfterReadErrorSkip == "serving"

\* `if package is None: break`
AfterReadError == "closing"

\* the serving loop resumes from _read_package:
\* `async with self.processing_semaphore` and the call of rh.handle
ReadRequest(c) ==
    /\ pc[c] = "serving"
    /\ Readable(c)
    /\ Consume(c)
    /\ IF ~ReadOK(c)
       THEN /\ pc' = [pc EXCEPT ![c] = AfterReadError]
            /\ UNCHANGED <<package, processing_semaphore, handled>>
       ELSE /\ package' = [package EXCEPT ![c] = read_package(c)]
            /\ IF ~SemLocked(processing_semaphore)
               THEN /\ processing_semaphore' = SemTake(processing_semaphore)
                    /\ pc' = [pc EXCEPT ![c] = "handling"]
                    /\ handled' = [handled EXCEPT ![c] = Append(@, read_package(c))]
               ELSE /\ processing_semaphore' = SemEnqueue(processing_semaphore, c)
                    /\ pc' = [pc EXCEPT ![c] = "proc_wait"]
                    /\ UNCHANGED handled
    /\ UNCHANGED <<unit, config, handlers, active_connections, connection_semaphore,
                   private_key, encryption, sent, eof, out, auth, client>>

\* a waiter of the processing semaphore resumes with its permit
ProcResume(c) ==
    /\ pc[c] = "proc_wait"
    /\ c \in processing_semaphore.granted
    /\ processing_semaphore' = SemResume(processing_semaphore, c)
    /\ pc' = [pc EXCEPT ![c] = "handling"]
    /\ handled' = [handled EXCEPT ![c] = Append(@, package[c])]
    /\ UNCHANGED <<unit, config, handlers, active_connections, connection_semaphore,
                   private_key, encryption, package, sent, nread, eof, out,
                   auth, client>>

\* a response that does not copy the request's uuid
ResponseForFreshUuid(request) ==
    Package(request.transaction, handle(handlers, request).value, NONE,
            ServerAddr, NONE)

\* the package _process_request sends for a request
ResponseFor(request) ==
    LET result == handle(handlers, request) IN
    IF ~result.raised
    THEN Package(request.transaction, result.value, request.uuid, ServerAddr, NONE)
    ELSE [create_error_package(request.transaction, result.value.v, request.uuid)
              EXCEPT !.from_addr = ServerAddr]

\* the connection closed after a request
AfterRequestClose == "closing"

\* where the serving loop waits once _process_request has returned
AfterRequest == "serving"

\* _process_request from the handler's return to the end of the
\* `async with self.processing_semaphore` block
process_request(c) ==
    /\ pc[c] = "handling"
    /\ out' = [out EXCEPT ![c] =
                  Append(@, send_package(ResponseFor(package[c]), encryption[c]))]
    /\ processing_semaphore' = SemRelease(processing_semaphore)
    /\ pc' = [pc EXCEPT ![c] = AfterRequest]
    /\ package' = [package EXCEPT ![c] = NoPackage]
    /\ UNCHANGED <<unit, config, handlers, active_connections, connection_semaphore,
                   private_key, encryption, sent, nread, eof, handled, auth, client>>

\* the `finally` of _handle_client resumes from writer.wait_closed(), which
\* returns or raises the error the connection was lost with; only an
\* ExceptionGroup is caught, so a raise skips the decrement.  Leaving the
\* `async with` releases the connection permit either way.
CloseWriter(c, raises) ==
    /\ pc[c] = "closing"
    /\ active_connections' = IF raises THEN active_connections
                             ELSE active_connections - 1
    /\ connection_semaphore' = SemRelease(connection_semaphore)
    /\ pc' = [pc EXCEPT ![c] = "closed"]
    /\ UNCHANGED <<unit, config, handlers, processing_semaphore, private_key,
                   encryption, package, sent, nread, eof, out, handled, auth,
                   client>>

(***************************************************************************)
(* The peer as the server sees it: any bytes, then end of stream.  What    *)
(* it does after the server has called writer.close() reaches no one.      *)
(***************************************************************************)
RECURSIVE SumLen(_, _)
SumLen(f, S) ==
    IF S = {} THEN 0
    ELSE LET c == CHOOSE x \in S : TRUE IN Len(f[c]) + SumLen(f, S \ {c})

PeerSend(c, item) ==
    /\ pc[c] \notin {"new", "closing", "closed"}
    /\ ~eof[c]
    /\ sent' = [sent EXCEPT ![c] = Append(@, item)]
    /\ UNCHANGED <<srv_vars, eof, client>>

PeerClose(c) ==
    /\ pc[c] \notin {"new", "closing", "closed"}
    /\ ~eof[c]
    /\ eof' = [eof EXCEPT ![c] = TRUE]
    /\ UNCHANGED <<srv_vars, sent, client>>

(***************************************************************************)
(* Client (htcp_client/client.py, htcp_client/backend.py).  The calling    *)
(* program makes one call at a time: pc is "idle" between calls and names  *)
(* the blocking recv the call waits in otherwise.  log keeps what each     *)
(* call was given and how it ended.  The model follows a Client through    *)
(* its first TCP connection; sendall is taken to complete.                 *)
(***************************************************************************)
\* the private exponent the client's DHEncryption generates
ClientExp == 1

NoCall == [name |-> "none", package |-> NoPackage]

\* Client.__init__
NewClient(dh_encryption, passkey) ==
    [dh_encryption |-> dh_encryption,
     passkey |-> IF passkey # "-" THEN passkey ELSE NONE,
     socket |-> "none", connected |-> FALSE, encryption |-> NoKey,
     pc |-> "idle", call |-> NoCall, nrecv |-> 0, log |-> <<>>]

\* what a client step does: the Client after it, the items it wrote to the
\* socket, whether it closed the socket
Step(cl, wrote, closed) == [client |-> cl, wrote |-> wrote, closed |-> closed]

Apply(c, step) ==
    /\ client' = [client EXCEPT ![c] = step.client]
    /\ sent' = [sent EXCEPT ![c] = @ \o step.wrote]
    /\ eof' = [eof EXCEPT ![c] = @ \/ step.closed]
    /\ UNCHANGED srv_vars

\* the call in progress returns value or raises error; index is the place in
\* the server's output of the frame it received (0: none), received that
\* frame as Package.from_bytes parsed it
Finish(cl, error, value, index, received) ==
    [cl EXCEPT !.pc = "idle", !.call = NoCall,
               !.log = Append(@, [call |-> cl.call.name,
                                  package |-> cl.call.package,
                                  error |-> error, value |-> value,
                                  index |-> index, received |-> received])]

\* connect()'s `except Exception`: close the socket, raise ConnectionError
ConnectFailed(cl, wrote) ==
    Step(Finish([cl EXCEPT !.socket = "closed", !.connected = FALSE],
                "ConnectionError: Failed to connect", NoPackage, 0, NoPackage),
         wrote, TRUE)

\* Client.send once connected: the frame it writes for pkg
ClientFrame(cl, pkg) ==
    IF cl.dh_encryption /\ cl.encryption # NoKey
    THEN Encrypt(cl.encryption, to_bytes(pkg, cl.dh_encryption, FALSE))
    ELSE to_bytes(pkg, cl.dh_encryption, FALSE)

\* the call in progress once connect() has returned: connect() is over,
\* send() serialises and writes, ask() does so and waits in receive()
Proceed(cl, wrote) ==
    IF cl.call.name = "connect"
    THEN Step(Finish(cl, NONE, NoPackage, 0, NoPackage), wrote, FALSE)
    ELSE IF ~CanEncode(cl.call.package)
    THEN Step(Finish(cl, "TypeError", NoPackage, 0, NoPackage), wrote, FALSE)
    ELSE IF cl.call.name = "send"
    THEN Step(Finish(cl, NONE, NoPackage, 0, NoPackage),
              wrote \o <<ClientFrame(cl, cl.call.package)>>, FALSE)
    ELSE Step([cl EXCEPT !.pc = "recv"],
              wrote \o <<ClientFrame(cl, cl.call.package)>>, FALSE)

\* _send_passkey: auth_pkg
AuthPkg(cl) == Package("_auth", Dict(cl.passkey), NONE, NONE, NONE)

\* connect() from `if self.passkey:` on; send(auth_pkg) raises in to_json
AfterClientHandshake(cl, wrote) ==
    IF cl.passkey # NONE /\ cl.passkey # ""
    THEN IF ~CanEncode(AuthPkg(cl))
         THEN ConnectFailed(cl, wrote)
         ELSE Proceed(cl, wrote \o <<ClientFrame(cl, AuthPkg(cl))>>)
    ELSE Proceed(cl, wrote)

\* connect() up to its first blocking recv
StartConnect(cl) ==
    LET k == [cl EXCEPT !.socket = "open", !.connected = TRUE] IN
    IF k.dh_encryption
    THEN Step([k EXCEPT !.pc = "hs_recv"], <<>>, FALSE)
    ELSE AfterClientHandshake(k, <<>>)

StartCall(c, name, pkg) == [client[c] EXCEPT !.call = [name |-> name, package |-> pkg]]

\* Client.connect()
connect(c) ==
    /\ client[c].pc = "idle"
    /\ client[c].socket = "none"
    /\ Apply(c, StartConnect(StartCall(c, "connect", NoPackage)))

\* Client.send(package), Client.ask(package): `if not self._connected:
\* self.connect()`, then the send
SendOrAsk(c, name, pkg) ==
    /\ client[c].pc = "idle"
    /\ IF client[c].connected
       THEN Apply(c, Proceed(StartCall(c, name, pkg), <<>>))
       ELSE /\ client[c].socket = "none"
            /\ Apply(c, StartConnect(StartCall(c, name, pkg)))

send(c, pkg) == SendOrAsk(c, "send", pkg)

ask(c, pkg) == SendOrAsk(c, "ask", pkg)

\* Client.receive() up to its blocking recv
receive(c) ==
    /\ client[c].pc = "idle"
    /\ LET cl == StartCall(c, "receive", NoPackage) IN
       IF ~cl.connected
       THEN Apply(c, Step(Finish(cl, "ConnectionError: Not connected to server",
                                 NoPackage, 0, NoPackage), <<>>, FALSE))
       ELSE Apply(c, Step([cl EXCEPT !.pc = "recv"], <<>>, FALSE))

\* Client.close()
close(c) ==
    /\ client[c].pc = "idle"
    /\ LET cl == StartCall(c, "close", NoPackage) IN
       IF cl.socket # "none"
       THEN Apply(c, Step(Finish([cl EXCEPT !.socket = "closed",
                                            !.connected = FALSE,
                                            !.encryption = NoKey],
                                 NONE, NoPackage, 0, NoPackage), <<>>, TRUE))
       ELSE Apply(c, Step(Finish(cl, NONE, NoPackage, 0, NoPackage), <<>>, FALSE))

\* recv returns: the server has written more, or has closed its end
ClientReadable(c) ==
    client[c].nrecv < Len(out[c]) \/ pc[c] \in {"closing", "closed"}

\* recv returns b"": _recv_exact raises ConnectionError
ClientEOF(c) == client[c].nrecv = Len(out[c])

\* _perform_handshake resumes from receive_raw
perform_handshake(c) ==
    /\ client[c].pc = "hs_recv"
    /\ ClientReadable(c)
    /\ LET cl == client[c]
           item == out[c][cl.nrecv + 1]
       IN IF ClientEOF(c)
          THEN Apply(c, ConnectFailed(cl, <<>>))
          ELSE IF ~item.raw \/ ~item.ok \/ item.type # "dh_init"
          THEN Apply(c, ConnectFailed([cl EXCEPT !.nrecv = @ + 1], <<>>))
          ELSE Apply(c, AfterClientHandshake(
                   [cl EXCEPT !.nrecv = @ + 1,
                              !.encryption = compute_shared_key(ClientExp, item.public)],
                   <<create_dh_reply_message(ClientExp)>>))

\* receive() returns a Package for the frame (decrypt and from_bytes do not raise)
ReceiveOK(cl, data) ==
    /\ ~data.raw
    /\ IF cl.dh_encryption /\ cl.encryption # NoKey /\ is_encrypted(data)
       THEN /\ DecryptOK(cl.encryption, data)
            /\ FromBytesOK(Decrypt(cl.encryption, data))
       ELSE FromBytesOK(data)

\* the Package receive() returns
Received(cl, data) ==
    IF cl.dh_encryption /\ cl.encryption # NoKey /\ is_encrypted(data)
    THEN from_bytes(Decrypt(cl.encryption, data))
    ELSE from_bytes(data)

\* ask comparing the transaction names
TransactionMatches(response, request) == response.transaction = request.transaction

\* ask without the comparison
UuidMatchesAny(response, request) == TRUE

\* ask: `response.uuid != package.uuid` does not hold
UuidMatches(response, request) == response.uuid = request.uuid

\* receive() resumes from PackageIO.receive; ask() goes on to compare uuids
ClientReceive(c) ==
    /\ client[c].pc = "recv"
    /\ ClientReadable(c)
    /\ LET cl == client[c]
           data == out[c][cl.nrecv + 1]
           k == [cl EXCEPT !.nrecv = @ + 1]
       IN IF ClientEOF(c)
          THEN Apply(c, Step(Finish(cl, "ConnectionError: Connection closed by peer",
                                    NoPackage, 0, NoPackage), <<>>, FALSE))
          ELSE IF ~ReceiveOK(cl, data)
          THEN Apply(c, Step(Finish(k, "decode error", NoPackage, k.nrecv, NoPackage),
                             <<>>, FALSE))
          ELSE IF cl.call.name = "ask" /\ ~UuidMatches(Received(cl, data), cl.call.package)
          THEN Apply(c, Step(Finish(k, "ValueError: Response UUID mismatch",
                                    NoPackage, k.nrecv, Received(cl, data)),
                             <<>>, FALSE))
          ELSE Apply(c, Step(Finish(k, NONE, Received(cl, data), k.nrecv,
                                    Received(cl, data)), <<>>, FALSE))

(***************************************************************************)
(* Construction.                                                           *)
(***************************************************************************)
\* Config.__post_init__ accepts the configuration
\* __post_init__ without its first check
ConfigValidUnordered(cfg) ==
    /\ ~(cfg.max_connections < 1)
    /\ ~(cfg.handle_connections < 1)

ConfigValid(cfg) ==
    /\ ~(cfg.handle_connections > cfg.max_connections)
    /\ ~(cfg.max_connections < 1)
    /\ ~(cfg.handle_connections < 1)

Configs(permits, passkeys) ==
    {cfg \in [max_connections : permits, handle_connections : permits,
              dh_encryption : BOOLEAN, connect_passkey : passkeys,
              host : {"localhost"}, port : {"9576"}] : ConfigValid(cfg)}

\* the handlers registered before the server is brought up
Registry == [t \in {"echo", "fail", "num"} |->
                CASE t = "echo" -> "echo" [] t = "fail" -> "raise" [] OTHER -> "number"]

\* a connection semaphore with one permit too many
ConnectionPermitsPlusOne(cfg) == cfg.max_connections + 1

\* asyncio.Semaphore(config.max_connections)
ConnectionPermits(cfg) == cfg.max_connections

\* a processing semaphore with one permit too many
ProcessingPermitsPlusOne(cfg) == cfg.handle_connections + 1

\* asyncio.Semaphore(config.handle_connections)
ProcessingPermits(cfg) == cfg.handle_connections

NoAuth == [done |-> FALSE, package |-> NoPackage, result |-> FALSE]

\* Server.__init__ on a configuration out of cfgs; no connection yet
InitServer(cfgs) ==
    /\ config \in cfgs
    /\ handlers = Registry
    /\ active_connections = 0
    /\ connection_semaphore = NewSemaphore(ConnectionPermits(config))
    /\ processing_semaphore = NewSemaphore(ProcessingPermits(config))
    /\ pc = [c \in Conns |-> "new"]
    /\ private_key = [c \in Conns |-> 0]
    /\ encryption = [c \in Conns |-> NoKey]
    /\ package = [c \in Conns |-> NoPackage]
    /\ sent = [c \in Conns |-> <<>>]
    /\ nread = [c \in Conns |-> 0]
    /\ eof = [c \in Conns |-> FALSE]
    /\ out = [c \in Conns |-> <<>>]
    /\ handled = [c \in Conns |-> <<>>]
    /\ auth = [c \in Conns |-> NoAuth]

(***************************************************************************)
(* Spec: admission control.  NConn peers connect to a server with up to    *)
(* MaxPermits connection permits and send, MaxSent items between them, a   *)
(* request, a dh_reply or nothing before they close.                       *)
(***************************************************************************)
Request(transaction, content, uuid) ==
    to_bytes(Package(transaction, Bytes(content), uuid, NONE, NONE), FALSE, FALSE)

AdmItems == {Request("echo", "hi", "u1"), create_dh_reply_message(1)}

Init ==
    /\ InitServer(Configs(1..MaxPermits, {NoPasskey, "X"}))
    /\ client = [c \in Conns |-> NewClient(FALSE, "-")]
    /\ unit = NONE

\* connections are numbered in the order the server accepts them
InOrder(c) == \A d \in Conns : d < c => pc[d] # "new"

\* the peer writes or closes when the server has read all it wrote before and
\* is not inside a handler (the server sees the same byte stream whenever the
\* bytes were written)
InTurn(c) == ~HasInput(c) /\ pc[c] \notin {"proc_wait", "handling"}

Next ==
    \/ \E c \in Conns : InOrder(c) /\ Connect(c, 1)
    \/ \E c \in Conns : ConnResume(c, 1)
    \/ \E c \in Conns : Handshake(c)
    \/ \E c \in Conns : Authenticate(c)
    \/ \E c \in Conns : ReadRequest(c)
    \/ \E c \in Conns : ProcResume(c)
    \/ \E c \in Conns : process_request(c)
    \/ \E c \in Conns, raises \in BOOLEAN : CloseWriter(c, raises)
    \/ \E c \in Conns, item \in AdmItems :
          SumLen(sent, Conns) < MaxSent /\ InTurn(c) /\ PeerSend(c, item)
    \/ \E c \in Conns : InTurn(c) /\ PeerClose(c)

Spec == Init /\ [][Next]_vars

(***************************************************************************)
(* SpecConn: one connection against every combination of dh_encryption and *)
(* connect_passkey.  The peer writes up to MaxFrames items, whenever it     *)
(* likes: requests for a registered, a raising, a mistyped and an unknown  *)
(* transaction, with an ordinary and with an empty uuid, _auth packages, a *)
(* frame that does not decode, handshake messages of both types and one    *)
(* that does not parse.  Having received dh_init it encrypts as            *)
(* Client.send does.  The server's private exponent is 2, the peer's 1.     *)
(***************************************************************************)
\* the key the peer derives from the dh_init it was sent (private exponent 1)
PeerKey(c) ==
    IF out[c] # <<>> /\ out[c][1].raw
    THEN compute_shared_key(1, out[c][1].public)
    ELSE NoKey

\* Client.send: the frame for pkg
PeerFrame(c, pkg) ==
    IF PeerKey(c) # NoKey
    THEN Encrypt(PeerKey(c), to_bytes(pkg, TRUE, FALSE))
    ELSE to_bytes(pkg, FALSE, FALSE)

AuthPackage(passkey) ==
    Package("_auth", Bytes("{\"passkey\": \"" \o passkey \o "\"}"), "u0", NONE, passkey)

ConnPackages ==
    {Package("echo", Bytes("hi"), "u1", NONE, NONE),
     Package("fail", Bytes("hi"), "u2", NONE, NONE),
     Package("num", Bytes(""), "u1", NONE, NONE),
     Package("nope", Bytes("hi"), "", NONE, NONE),
     Package("echo", Bytes(""), "", NONE, NONE),
     AuthPackage("X"),
     AuthPackage("bad")}

\* a frame whose payload is not a package
JunkFrame ==
    [to_bytes(NoPackage, FALSE, FALSE) EXCEPT !.ok = FALSE]

ConnItems(c) ==
    {PeerFrame(c, pkg) : pkg \in ConnPackages}
    \cup {JunkFrame,
          create_dh_reply_message(1),
          [create_dh_reply_message(1) EXCEPT !.type = "dh_init"],
          [create_dh_reply_message(1) EXCEPT !.ok = FALSE]}

InitConn ==
    /\ InitServer(Configs({1}, {NoPasskey, "", "X"}))
    /\ client = [c \in Conns |-> NewClient(FALSE, "-")]
    /\ unit = NONE

NextConn ==
    \/ Connect(1, 2)
    \/ Handshake(1)
    \/ Authenticate(1)
    \/ ReadRequest(1)
    \/ process_request(1)
    \/ \E raises \in BOOLEAN : CloseWriter(1, raises)
    \/ \E item \in ConnItems(1) : Len(sent[1]) < MaxFrames /\ PeerSend(1, item)
    \/ PeerClose(1)

SpecConn == InitConn /\ [][NextConn]_vars

(***************************************************************************)
(* SpecClient: a Client object drives connection 1 of a server with the    *)
(* same dh_encryption setting (with different settings the two ends frame  *)
(* the byte stream differently, which frames as items cannot express).     *)
(* The program makes up to MaxCalls calls of connect, send, ask, receive   *)
(* and close, in any order.                                                *)
(***************************************************************************)
ClientPackages ==
    {Package("echo", Bytes("hi"), "u1", NONE, NONE),
     Package("echo", Bytes("yo"), "u2", NONE, NONE),
     Package("nope", Bytes("hi"), "", NONE, NONE)}

InitClient ==
    /\ InitServer(Configs({1}, {NoPasskey, "X"}))
    /\ \E passkey \in {"-", "X"} :
          client = [c \in Conns |->
                       IF c = 1 THEN NewClient(config.dh_encryption, passkey)
                       ELSE NewClient(FALSE, "-")]
    /\ unit = NONE

\* the program may make another call
MayCall == Len(client[1].log) < MaxCalls

NextClient ==
    \/ client[1].socket # "none" /\ Connect(1, 2)
    \/ Handshake(1)
    \/ Authenticate(1)
    \/ ReadRequest(1)
    \/ process_request(1)
    \/ \E raises \in BOOLEAN : CloseWriter(1, raises)
    \/ MayCall /\ connect(1)
    \/ \E pkg \in ClientPackages : MayCall /\ send(1, pkg)
    \/ \E pkg \in ClientPackages : MayCall /\ ask(1, pkg)
    \/ MayCall /\ receive(1)
    \/ MayCall /\ close(1)
    \/ perform_handshake(1)
    \/ ClientReceive(1)

SpecClient == InitClient /\ [][NextClient]_vars

(***************************************************************************)
(* The package codec byte by byte (htcp/backend/proto.py).  A bytes value  *)
(* is a sequence of 0..255, Base64 text a sequence of characters, a JSON   *)
(* object the sequence of its members in the order json.dumps writes them. *)
(* The strings of the model need no JSON escape, so a string of n          *)
(* characters is n + 2 bytes of payload.                                   *)
(***************************************************************************)
\* htcp/version.py: protocol_version
protocol_version == "<protocol_version>"
\* htcp/version.py: protocol_backward_compatibility_id
protocol_backward_compatibility_id == "1"

\* Package(...) with all its fields, after __post_init__
WirePackage(transaction, content, uuid, from_addr, version, id, passkey) ==
    [transaction |-> transaction, content |-> content,
     uuid |-> IF uuid = NONE THEN UUID4 ELSE uuid,
     from_addr |-> from_addr,
     protocol_version |-> IF version = NONE THEN protocol_version ELSE version,
     protocol_id |-> IF id = NONE THEN protocol_backward_compatibility_id ELSE id,
     passkey |-> passkey]

B64Alphabet ==
    <<"A", "B", "C", "D", "E", "F", "G", "H", "I", "J", "K", "L", "M", "N", "O", "P",
      "Q", "R", "S", "T", "U", "V", "W", "X", "Y", "Z", "a", "b", "c", "d", "e", "f",
      "g", "h", "i", "j", "k", "l", "m", "n", "o", "p", "q", "r", "s", "t", "u", "v",
      "w", "x", "y", "z", "0", "1", "2", "3", "4", "5", "6", "7", "8", "9", "+", "/">>

B64Char(n) == B64Alphabet[n + 1]
B64Value(ch) == IF ch = "=" THEN 0 ELSE (CHOOSE i \in 1..64 : B64Alphabet[i] = ch) - 1

\* base64.b64encode(data).decode("ascii")
RECURSIVE b64encode(_)
b64encode(data) ==
    IF Len(data) = 0 THEN <<>>
    ELSE LET k == IF Len(data) < 3 THEN Len(data) ELSE 3
             n == data[1] * 65536 + (IF k > 1 THEN data[2] * 256 ELSE 0)
                  + (IF k > 2 THEN data[3] ELSE 0)
         IN <<B64Char(n \div 262144), B64Char((n \div 4096) % 64),
              IF k > 1 THEN B64Char((n \div 64) % 64) ELSE "=",
              IF k > 2 THEN B64Char(n % 64) ELSE "=">>
            \o b64encode(SubSeq(data, k + 1, Len(data)))

\* base64.b64decode raises binascii.Error (incorrect padding) unless this holds
B64DecodeOK(text) ==
    /\ Len(text) % 4 = 0
    /\ \A i \in 1..Len(text) :
          /\ text[i] = "=" \/ \E j \in 1..64 : B64Alphabet[j] = text[i]
          /\ text[i] = "=" => i > Len(text) - 2 /\ text[Len(text)] = "="

\* base64.b64decode(text)
RECURSIVE b64decode(_)
b64decode(text) ==
    IF Len(text) = 0 THEN <<>>
    ELSE LET n == B64Value(text[1]) * 262144 + B64Value(text[2]) * 4096
                  + B64Value(text[3]) * 64 + B64Value(text[4])
             k == IF text[3] = "=" THEN 1 ELSE IF text[4] = "=" THEN 2 ELSE 3
         IN SubSeq(<<n \div 65536, (n \div 256) % 256, n % 256>>, 1, k)
            \o b64decode(SubSeq(text, 5, Len(text)))

\* JSON values
JStr(s) == [t |-> "str", v |-> s]
JInt(n) == [t |-> "int", v |-> n]
JText(chars) == [t |-> "text", v |-> chars]
JNull == [t |-> "null", v |-> NONE]
\* a string of n characters, held by its length
JFill(n) == [t |-> "fill", v |-> n]

\* json.dumps of an Optional value; json.loads of it
JOpt(x, tag) == IF x = NONE THEN JNull ELSE [t |-> tag, v |-> x]
JNullAsText(v) == IF v.t = "null" THEN "null" ELSE v.v
FromJ(v) == IF v.t = "null" THEN NONE ELSE v.v

\* `key in json_data`
JHas(obj, key) == \E i \in 1..Len(obj) : obj[i].key = key

\* json_data[key]
JItem(obj, key) ==
    obj[CHOOSE i \in 1..Len(obj) :
            obj[i].key = key /\ \A j \in (i + 1)..Len(obj) : obj[j].key # key].value

\* json_data.get(key)
JGet(obj, key) == IF JHas(obj, key) THEN FromJ(JItem(obj, key)) ELSE NONE

\* len(json.dumps(obj).encode("utf-8"))
JValueLen(v) ==
    CASE v.t = "null" -> 4 [] v.t = "int" -> Len(v.v) [] v.t = "fill" -> v.v + 2
      [] OTHER -> Len(v.v) + 2

RECURSIVE JMembersLen(_)
JMembersLen(obj) ==
    IF Len(obj) = 0 THEN 0
    ELSE Len(obj[1].key) + 4 + JValueLen(obj[1].value)
         + (IF Len(obj) > 1 THEN 2 ELSE 0) + JMembersLen(Tail(obj))

PayloadLen(obj) == 2 + JMembersLen(obj)

\* Package.to_json
wire_to_json(p) ==
    <<[key |-> "protocol_version", value |-> JOpt(p.protocol_version, "str")],
      [key |-> "protocol_id", value |-> JOpt(p.protocol_id, "int")],
      [key |-> "uuid", value |-> JOpt(p.uuid, "str")],
      [key |-> "transaction", value |-> JStr(p.transaction)],
      [key |-> "from", value |-> JOpt(p.from_addr, "str")],
      [key |-> "content", value |-> JText(b64encode(p.content))]>>
    \o (IF p.passkey # NONE
        THEN <<[key |-> "passkey", value |-> JStr(p.passkey)]>> ELSE <<>>)

RECURSIVE BitAnd(_, _)
BitAnd(a, b) ==
    IF a = 0 \/ b = 0 THEN 0
    ELSE (a % 2) * (b % 2) + 2 * BitAnd(a \div 2, b \div 2)

BitOr(a, b) == a + b - BitAnd(a, b)

\* struct.pack(">I", n); struct.unpack(">I", word)[0]
pack(n) == <<(n \div 16777216) % 256, (n \div 65536) % 256, (n \div 256) % 256, n % 256>>
unpack(word) == word[1] * 16777216 + word[2] * 65536 + word[3] * 256 + word[4]

\* a length word that counts the payload only
PayloadOnlyLength(payload) == PayloadLen(payload)

\* total_length = 5 + len(payload)
total_length(payload) == 5 + PayloadLen(payload)

\* Package.to_bytes: header + payload
wire_to_bytes(p, encrypted, response) ==
    LET payload == wire_to_json(p)
        f1 == IF encrypted THEN BitOr(0, FLAG_ENCRYPTED) ELSE 0
        f2 == IF p.passkey # NONE THEN BitOr(f1, FLAG_PASSKEY) ELSE f1
        flags == IF response THEN BitOr(f2, FLAG_RESPONSE) ELSE f2
    IN [header |-> pack(total_length(payload)) \o <<flags>>, payload |-> payload]

\* len(data)
WireLen(data) == Len(data.header) + PayloadLen(data.payload)

\* Package.from_bytes
wire_from_bytes(data) ==
    IF WireLen(data) < 5
    THEN Raised("ValueError: Data too short for HTCP message")
    ELSE IF WireLen(data) # unpack(SubSeq(data.header, 1, 4))
    THEN Raised("ValueError: Length mismatch")
    ELSE LET json_data == data.payload IN
         IF ~JHas(json_data, "content") \/ ~JHas(json_data, "transaction")
         THEN Raised("KeyError")
         ELSE IF JItem(json_data, "content").t # "text"
         THEN Raised("TypeError")
         ELSE IF ~B64DecodeOK(JItem(json_data, "content").v)
         THEN Raised("binascii.Error")
         ELSE Returned(WirePackage(JItem(json_data, "transaction").v,
                                   b64decode(JItem(json_data, "content").v),
                                   JGet(json_data, "uuid"),
                                   JGet(json_data, "from"),
                                   JGet(json_data, "protocol_version"),
                                   JGet(json_data, "protocol_id"),
                                   JGet(json_data, "passkey")))

\* Package.get_flags, is_encrypted, is_response, has_passkey
wire_get_flags(data) == data.header[5]
wire_is_encrypted(data) == BitAnd(wire_get_flags(data), FLAG_ENCRYPTED) # 0
wire_is_response(data) == BitAnd(wire_get_flags(data), FLAG_RESPONSE) # 0
wire_has_passkey(data) == BitAnd(wire_get_flags(data), FLAG_PASSKEY) # 0

(***************************************************************************)
(* SpecCodec: a Package is built, encoded with to_bytes and decoded with   *)
(* from_bytes, for every content of up to MaxContent bytes and every       *)
(* choice of the optional fields and of the two flag arguments.            *)
(***************************************************************************)
RECURSIVE SeqsUpTo(_, _)
SeqsUpTo(S, n) ==
    IF n = 0 THEN {<<>>}
    ELSE SeqsUpTo(S, n - 1)
         \cup {Append(s, x) : s \in {t \in SeqsUpTo(S, n - 1) : Len(t) = n - 1}, x \in S}

CodecPackages ==
    {WirePackage(t, content, uuid, from_addr, version, id, passkey) :
        t \in {"echo", ""}, content \in SeqsUpTo({0, 255}, MaxContent),
        uuid \in {NONE, "u1", ""}, from_addr \in {NONE, "h:1"},
        version \in {NONE, "2.0"}, id \in {NONE, "17"},
        passkey \in {NONE, "", "X"}}

InitCodec ==
    /\ InitServer(Configs({1}, {NoPasskey}))
    /\ client = [c \in Conns |-> NewClient(FALSE, "-")]
    /\ \E p \in CodecPackages :
          unit = [stage |-> "package", p |-> p, encrypted |-> FALSE,
                  response |-> FALSE, data |-> <<>>, decoded |-> Returned(p)]

\* data = p.to_bytes(encrypted, is_response)
Encode(encrypted, response) ==
    /\ unit.stage = "package"
    /\ unit' = [unit EXCEPT !.stage = "frame", !.encrypted = encrypted,
                            !.response = response,
                            !.data = wire_to_bytes(unit.p, encrypted, response)]
    /\ UNCHANGED conn_vars

\* Package.from_bytes(data)
Decode ==
    /\ unit.stage = "frame"
    /\ unit' = [unit EXCEPT !.stage = "decoded",
                            !.decoded = wire_from_bytes(unit.data)]
    /\ UNCHANGED conn_vars

NextCodec ==
    \/ \E encrypted \in BOOLEAN, response \in BOOLEAN : Encode(encrypted, response)
    \/ Decode

SpecCodec == InitCodec /\ [][NextCodec]_vars

(***************************************************************************)
(* DHEncryption as an object (htcp/backend/dh_encryption.py).  None is 0   *)
(* for the numbers and <<>> for parameters and aes_key.  A method gives    *)
(* the object after the call and what the call returned or raised.  AES in *)
(* CBC mode is a keyed bijection on the padded data: a ciphertext byte     *)
(* records the key, the IV and the byte it hides, and the right key and IV *)
(* give that byte back.                                                    *)
(***************************************************************************)
\* DHEncryption()
DHEncryption ==
    [parameters |-> <<>>, private_key |-> 0, public_key |-> 0,
     shared_key |-> 0, aes_key |-> NoKey]

Call(d, ret) == [d |-> d, ret |-> ret]

\* _generate_keys with the private exponent the library draws
generate_keys(d, priv) ==
    IF d.parameters = <<>>
    THEN Call(d, Raised("RuntimeError: Parameters not set"))
    ELSE Call([d EXCEPT !.private_key = priv,
                        !.public_key = ModExp(d.parameters[2], priv, d.parameters[1])],
              Returned(<<>>))

generate_parameters(d, priv) ==
    generate_keys([d EXCEPT !.parameters = <<DH_P, DH_G>>], priv)

load_parameters(d, p, g, priv) ==
    generate_keys([d EXCEPT !.parameters = <<p, g>>], priv)

get_public_numbers(d) ==
    IF d.parameters = <<>> \/ d.public_key = 0
    THEN Call(d, Raised("RuntimeError: Keys not generated"))
    ELSE Call(d, Returned([p |-> d.parameters[1], g |-> d.parameters[2],
                           public |-> d.public_key]))

\* the library accepts a peer public key y with 1 < y < p - 1
PeerKeyValid(d, y) == 1 < y /\ y < d.parameters[1] - 1

\* a shared secret computed from the object's own public key
ExchangeWithSelf(d, peer_public_key) ==
    ModExp(d.public_key, d.private_key, d.parameters[1])

\* self.private_key.exchange(peer_public_key_obj)
exchange(d, peer_public_key) ==
    ModExp(peer_public_key, d.private_key, d.parameters[1])

\* DHEncryption.compute_shared_key
dh_compute_shared_key(d, peer_public_key) ==
    IF d.private_key = 0 \/ d.parameters = <<>>
    THEN Call(d, Raised("RuntimeError: Keys not generated"))
    ELSE IF ~PeerKeyValid(d, peer_public_key)
    THEN Call(d, Raised("ValueError"))
    ELSE Call([d EXCEPT !.shared_key = exchange(d, peer_public_key),
                        !.aes_key = <<"hkdf", exchange(d, peer_public_key)>>],
              Returned(<<>>))

\* _pad
pad(data) ==
    LET block_size == 16
        padding_length == block_size - (Len(data) % block_size)
    IN data \o [i \in 1..padding_length |-> padding_length]

\* _unpad: data[:-padding_length] is data[:0] when padding_length is 0
unpad(data) ==
    IF Len(data) = 0 THEN Raised("ValueError: Cannot unpad empty data")
    ELSE LET padding_length == data[Len(data)] IN
         IF padding_length > 16 \/ padding_length > Len(data)
         THEN Raised("ValueError: Invalid padding")
         ELSE IF \E i \in 0..(padding_length - 1) :
                     data[Len(data) - i] # padding_length
         THEN Raised("ValueError: Invalid padding bytes")
         ELSE IF padding_length = 0 THEN Returned(<<>>)
         ELSE Returned(SubSeq(data, 1, Len(data) - padding_length))

\* Cipher(AES(key), CBC(iv)).encryptor() on padded data
CBCEncrypt(key, iv, padded) ==
    [i \in 1..Len(padded) |-> [key |-> key, iv |-> iv, byte |-> padded[i]]]

\* ... .decryptor(): another key or IV gives other bytes
CBCDecrypt(key, iv, data, noise) ==
    [i \in 1..Len(data) |->
        IF data[i].key = key /\ data[i].iv = iv THEN data[i].byte ELSE noise]

\* no check of aes_key
KeyNeverMissing(d) == FALSE

\* `if self.aes_key is None`
KeyMissing(d) == d.aes_key = NoKey

\* DHEncryption.encrypt with the IV os.urandom returns
encrypt(d, plaintext, iv) ==
    IF KeyMissing(d)
    THEN Call(d, Raised("RuntimeError: Shared key not computed"))
    ELSE Call(d, Returned(iv \o CBCEncrypt(d.aes_key, iv, pad(plaintext))))

\* DHEncryption.decrypt
decrypt(d, ciphertext, noise) ==
    IF KeyMissing(d)
    THEN Call(d, Raised("RuntimeError: Shared key not computed"))
    ELSE IF Len(ciphertext) < 16
    THEN Call(d, Raised("ValueError: Ciphertext too short (missing IV)"))
    ELSE LET iv == SubSeq(ciphertext, 1, 16)
             encrypted_data == SubSeq(ciphertext, 17, Len(ciphertext))
         IN IF Len(encrypted_data) % 16 # 0
            THEN Call(d, Raised("ValueError: not a multiple of the block length"))
            ELSE Call(d, unpad(CBCDecrypt(d.aes_key, iv, encrypted_data, noise)))

(***************************************************************************)
(* SpecCrypto: the server's and the client's DHEncryption.  The server's   *)
(* gets its parameters from generate_parameters and the client's from      *)
(* load_parameters with the p and g of dh_init, each once, as the two      *)
(* handshakes do; every other method is called at any time, on either      *)
(* object, compute_shared_key with the peer's public key or with another   *)
(* number.  Private exponents are 1..MaxExp, plaintexts have up to         *)
(* MaxPlain bytes, and decrypt is also given a ciphertext not made by the   *)
(* peer and one shorter than an IV.                                        *)
(***************************************************************************)
Sides == {"server", "client"}
Other(side) == IF side = "server" THEN "client" ELSE "server"

Fill(n, b) == [i \in 1..n |-> b]

Plaintexts == {Fill(n, 16) : n \in 0..MaxPlain}

IVs == {Fill(16, 7)}

\* n bytes that end with k bytes of value last after bytes of value b
Padded(n, k, last, b) == [i \in 1..n |-> IF i > n - k THEN last ELSE b]

PaddedBlocks ==
    {Padded(n, k, last, b) :
        n \in {16, 32}, k \in {1, 2, 3, 15, 16}, last \in {0, 1, 2, 3, 16, 17, 255},
        b \in {0, 9}}

NoRet == [by |-> NONE, call |-> NONE, ret |-> Returned(<<>>), derived |-> FALSE,
          keyed |-> FALSE, from |-> NONE, plaintext |-> <<>>, padded |-> <<>>]

InitCrypto ==
    /\ InitServer(Configs({1}, {NoPasskey}))
    /\ client = [c \in Conns |-> NewClient(FALSE, "-")]
    /\ unit = [d |-> [side \in Sides |-> DHEncryption],
               derived |-> [side \in Sides |-> FALSE],
               used |-> [side \in Sides |-> 0],
               ret |-> NoRet]

\* the call `name` on the object of `side` gave `got`
Called(side, name, got, from, plaintext, padded) ==
    [unit EXCEPT !.d[side] = got.d,
                 !.ret = [by |-> side, call |-> name, ret |-> got.ret,
                          derived |-> unit.derived[side],
                          keyed |-> unit.d[side].parameters # <<>>
                                    /\ unit.d[side].private_key # 0,
                          from |-> from, plaintext |-> plaintext,
                          padded |-> padded]]

\* Server._perform_handshake: encryption.generate_parameters()
GenerateParameters(priv) ==
    /\ unit.d["server"].parameters = <<>>
    /\ unit' = Called("server", "generate_parameters",
                      generate_parameters(unit.d["server"], priv), NONE, <<>>, <<>>)
    /\ UNCHANGED conn_vars

\* Client._perform_handshake: load_parameters(dh_init['p'], dh_init['g'])
LoadParameters(priv) ==
    /\ unit.d["client"].parameters = <<>>
    /\ ~get_public_numbers(unit.d["server"]).ret.raised
    /\ LET dh_init == get_public_numbers(unit.d["server"]).ret.value IN
       unit' = Called("client", "load_parameters",
                      load_parameters(unit.d["client"], dh_init.p, dh_init.g, priv),
                      NONE, <<>>, <<>>)
    /\ UNCHANGED conn_vars

GetPublicNumbers(side) ==
    /\ unit' = Called(side, "get_public_numbers", get_public_numbers(unit.d[side]),
                      NONE, <<>>, <<>>)
    /\ UNCHANGED conn_vars

\* compute_shared_key(y), once with success on each object
ComputeSharedKey(side, y) ==
    /\ ~unit.derived[side]
    /\ LET got == dh_compute_shared_key(unit.d[side], y) IN
       unit' = [Called(side, "compute_shared_key", got, NONE, <<>>, <<>>)
                   EXCEPT !.derived[side] = ~got.ret.raised,
                          !.used[side] = IF got.ret.raised THEN @ ELSE y]
    /\ UNCHANGED conn_vars

\* encrypt(plaintext)
EncryptCall(side, plaintext, iv) ==
    /\ unit' = Called(side, "encrypt", encrypt(unit.d[side], plaintext, iv),
                      NONE, plaintext, <<>>)
    /\ UNCHANGED conn_vars

\* decrypt of what the peer's encrypt has just returned
DecryptCall(side, noise) ==
    /\ unit.ret.call = "encrypt"
    /\ unit.ret.by = Other(side)
    /\ ~unit.ret.ret.raised
    /\ unit' = Called(side, "decrypt",
                      decrypt(unit.d[side], unit.ret.ret.value, noise),
                      "peer", unit.ret.plaintext, <<>>)
    /\ UNCHANGED conn_vars

\* decrypt of IV || E(padded) under the object's key (any key if it has
\* none), or of fewer than 16 bytes
DecryptCrafted(side, iv, padded, short) ==
    /\ LET key == IF unit.d[side].aes_key # NoKey THEN unit.d[side].aes_key
                  ELSE <<"hkdf", 0>>
           ciphertext == IF short THEN SubSeq(iv, 1, 15)
                         ELSE iv \o CBCEncrypt(key, iv, padded)
       IN unit' = Called(side, "decrypt", decrypt(unit.d[side], ciphertext, 0),
                         IF short THEN "short" ELSE "crafted", <<>>, padded)
    /\ UNCHANGED conn_vars

NextCrypto ==
    \/ \E priv \in 1..MaxExp : GenerateParameters(priv)
    \/ \E priv \in 1..MaxExp : LoadParameters(priv)
    \/ \E side \in Sides : GetPublicNumbers(side)
    \/ \E side \in Sides :
          \E y \in {unit.d[Other(side)].public_key, 1, 2} : ComputeSharedKey(side, y)
    \/ \E side \in Sides, plaintext \in Plaintexts, iv \in IVs :
          EncryptCall(side, plaintext, iv)
    \/ \E side \in Sides, noise \in {0, 16} : DecryptCall(side, noise)
    \/ \E side \in Sides, iv \in IVs, short \in BOOLEAN :
          DecryptCrafted(side, iv, pad(<<>>), short)

SpecCrypto == InitCrypto /\ [][NextCrypto]_vars

(***************************************************************************)
(* SpecUnpad: decrypt on a DHEncryption with a derived key (the server's   *)
(* and the client's after the handshake with exponents 2 and 1), given     *)
(* IV || E(padded) for padded data of one and two blocks ending in every   *)
(* kind of padding, and given fewer than 16 bytes.                         *)
(***************************************************************************)
\* the server's and the client's object once both handshakes are through
AfterHandshakes(a, b) ==
    LET s0 == generate_parameters(DHEncryption, a).d
        c0 == load_parameters(DHEncryption, DH_P, DH_G, b).d
    IN [side \in Sides |->
           IF side = "server" THEN dh_compute_shared_key(s0, c0.public_key).d
           ELSE dh_compute_shared_key(c0, s0.public_key).d]

InitUnpad ==
    /\ InitServer(Configs({1}, {NoPasskey}))
    /\ client = [c \in Conns |-> NewClient(FALSE, "-")]
    /\ unit = [d |-> AfterHandshakes(2, ClientExp),
               derived |-> [side \in Sides |-> TRUE],
               used |-> [side \in Sides |->
                            AfterHandshakes(2, ClientExp)[Other(side)].public_key],
               ret |-> NoRet]

NextUnpad ==
    \E side \in Sides, iv \in IVs, padded \in PaddedBlocks, short \in BOOLEAN :
        DecryptCrafted(side, iv, padded, short)

SpecUnpad == InitUnpad /\ [][NextUnpad]_vars

(***************************************************************************)
(* _read_package byte by byte, and the frames it fails on.  A frame on the *)
(* wire is its 5 header bytes, the payload bytes that follow (a JSON       *)
(* object is held as its members, sent in the clear; bytes are no JSON     *)
(* text) and whether the stream holds all the bytes the length word        *)
(* announces.                                                              *)
(***************************************************************************)
WireFrame(length, flags, kind, payload, complete) ==
    [header |-> pack(length) \o <<flags>>, kind |-> kind, payload |-> payload,
     complete |-> complete]

\* a DHEncryption that holds aes_key
KeyHolder(aes_key) == [DHEncryption EXCEPT !.aes_key = aes_key]

\* Server._read_package(reader, encryption): a Package, or the exception
\* that makes it return None
wire_read_package(w, aes_key) ==
    LET length == unpack(SubSeq(w.header, 1, 4)) IN
    IF length - 5 < 0
    THEN Raised("ValueError: readexactly size can not be less than zero")
    ELSE IF ~w.complete
    THEN Raised("IncompleteReadError")
    ELSE IF w.kind = "json"
    THEN wire_from_bytes([header |-> w.header, payload |-> w.payload])
    ELSE LET payload == IF aes_key # NoKey /\ wire_is_encrypted(w)
                        THEN decrypt(KeyHolder(aes_key), w.payload, 0).ret
                        ELSE Returned(w.payload)
         IN IF payload.raised THEN payload
            ELSE Raised("UnicodeDecodeError / JSONDecodeError")

\* the key a peer encrypts under: the session's, or one of its own
FaultKey(aes_key) == IF aes_key # NoKey THEN aes_key ELSE <<"hkdf", 0>>

\* to_json without its content member
WithoutContent(p) == SelectSeq(wire_to_json(p), LAMBDA m : m.key # "content")

FaultFrames(aes_key) ==
    [short_length |-> WireFrame(4, 0, "bytes", <<>>, TRUE),
     zero_length |-> WireFrame(0, FLAG_ENCRYPTED, "bytes", <<>>, TRUE),
     truncated |-> WireFrame(5 + 8, 0, "bytes", <<123>>, FALSE),
     short_cipher |-> WireFrame(5 + 15, FLAG_ENCRYPTED, "bytes", Fill(15, 7), TRUE),
     bad_padding |->
        WireFrame(5 + 32, FLAG_ENCRYPTED, "bytes",
                  Fill(16, 7) \o CBCEncrypt(FaultKey(aes_key), Fill(16, 7),
                                            Padded(16, 1, 17, 9)), TRUE),
     bad_padding_bytes |->
        WireFrame(5 + 32, FLAG_ENCRYPTED, "bytes",
                  Fill(16, 7) \o CBCEncrypt(FaultKey(aes_key), Fill(16, 7),
                                            Padded(16, 2, 3, 9)), TRUE),
     zero_padding |->
        WireFrame(5 + 32, FLAG_ENCRYPTED, "bytes",
                  Fill(16, 7) \o CBCEncrypt(FaultKey(aes_key), Fill(16, 7),
                                            Fill(16, 0)), TRUE),
     empty_payload |-> WireFrame(5, 0, "bytes", <<>>, TRUE),
     not_utf8 |-> WireFrame(5 + 1, 0, "bytes", <<255>>, TRUE),
     no_content |->
        WireFrame(5 + PayloadLen(WithoutContent(
                         WirePackage("echo", <<>>, "u1", NONE, NONE, NONE, NONE))),
                  0, "json",
                  WithoutContent(WirePackage("echo", <<>>, "u1", NONE, NONE, NONE, NONE)),
                  TRUE)]

FaultKinds == DOMAIN FaultFrames(NoKey)

\* the frame as the connection sees it: it decodes (ok) iff _read_package
\* returns a Package for its bytes under the connection's key
FaultItem(kind, aes_key) ==
    LET w == FaultFrames(aes_key)[kind] IN
    [raw |-> FALSE, flags |-> wire_get_flags(w),
     key |-> IF wire_is_encrypted(w) THEN aes_key ELSE NoKey,
     ok |-> ~wire_read_package(w, aes_key).raised,
     body |-> to_json(NoPackage), fault |-> kind]

\* a request whose JSON object carries one more member, "x", a string of
\* `filler` characters: from_bytes reads the members it knows and ignores it
LongFrame(filler) ==
    LET obj == wire_to_json(WirePackage("echo", <<104, 105>>, "u1", NONE, NONE,
                                        NONE, NONE))
               \o <<[key |-> "x", value |-> JFill(filler)]>>
    IN WireFrame(5 + PayloadLen(obj), 0, "json", obj, TRUE)

\* the frame as the connection sees it, with its length word
LongItem(filler, aes_key) ==
    [raw |-> FALSE, flags |-> wire_get_flags(LongFrame(filler)), key |-> NoKey,
     ok |-> ~wire_read_package(LongFrame(filler), aes_key).raised,
     body |-> to_json(Package("echo", Bytes("hi"), "u1", NONE, NONE)),
     length |-> unpack(SubSeq(LongFrame(filler).header, 1, 4))]

\* the peer writes the beginning of a frame and closes
PeerTruncate(c, item) ==
    /\ pc[c] \notin {"new", "closing", "closed"}
    /\ ~eof[c]
    /\ sent' = [sent EXCEPT ![c] = Append(@, item)]
    /\ eof' = [eof EXCEPT ![c] = TRUE]
    /\ UNCHANGED <<srv_vars, client>>

(***************************************************************************)
(* SpecFault: one connection without passkey gate, with and without DH.    *)
(* The peer completes the handshake and writes up to MaxFrames items:      *)
(* requests, and frames of every faulty kind.                              *)
(***************************************************************************)
\* a request frame with 16 MiB of filler; sent in the clear, it reads the
\* same under every key
LongRequest == LongItem(16 * 1024 * 1024, NoKey)

FaultFreeItems(c) ==
    {PeerFrame(c, Package("echo", Bytes("hi"), "u1", NONE, NONE)),
     LongRequest,
     create_dh_reply_message(1)}

\* the session keys a handshake can end in
SessionKeys == {NoKey} \cup {<<"hkdf", s>> : s \in 0..(DH_P - 1)}

\* every faulty frame as every connection sees it
FaultTable ==
    [aes_key \in SessionKeys |-> [kind \in FaultKinds |-> FaultItem(kind, aes_key)]]

FaultItems(c) ==
    {FaultTable[encryption[c]][kind] : kind \in FaultKinds \ {"truncated"}}

InitFault ==
    /\ InitServer(Configs({1}, {NoPasskey}))
    /\ client = [c \in Conns |-> NewClient(FALSE, "-")]
    /\ unit = NONE

NextFault ==
    \/ Connect(1, 2)
    \/ Handshake(1)
    \/ ReadRequest(1)
    \/ process_request(1)
    \/ \E raises \in BOOLEAN : CloseWriter(1, raises)
    \/ \E item \in FaultFreeItems(1) \cup FaultItems(1) :
          Len(sent[1]) < MaxFrames /\ PeerSend(1, item)
    \/ Len(sent[1]) < MaxFrames
          /\ PeerTruncate(1, FaultTable[encryption[1]]["truncated"])
    \/ PeerClose(1)

SpecFault == InitFault /\ [][NextFault]_vars

(***************************************************************************)
(* SpecConfig: Config(...) and Server(config) on arbitrary capacities.     *)
(***************************************************************************)
\* the capacities tried: below 1, and up to one above MaxPermits
Capacities == (0 - 2)..(MaxPermits + 1)

ConfigArgs ==
    [max_connections : Capacities, handle_connections : Capacities,
     dh_encryption : BOOLEAN, connect_passkey : {NoPasskey, "X"},
     host : {"localhost"}, port : {"9576"}]

\* Config(host, port, ...): the dataclass, or the ValueError of __post_init__;
\* unit holds the result of a call as a one-element sequence
NewConfig(args) ==
    IF ConfigValid(args) THEN Returned(args)
    ELSE IF args.handle_connections > args.max_connections
    THEN Raised("ValueError: handle_connections cannot exceed max_connections")
    ELSE IF args.max_connections < 1
    THEN Raised("ValueError: max_connections must be at least 1")
    ELSE Raised("ValueError: handle_connections must be at least 1")

\* Server(config)
NewServer(cfg) ==
    [config |-> cfg,
     connection_semaphore |-> NewSemaphore(ConnectionPermits(cfg)),
     processing_semaphore |-> NewSemaphore(ProcessingPermits(cfg)),
     active_connections |-> 0]

InitConfig ==
    /\ InitServer(Configs({1}, {NoPasskey}))
    /\ client = [c \in Conns |-> NewClient(FALSE, "-")]
    /\ \E args \in ConfigArgs :
          unit = [args |-> args, config |-> <<>>, server |-> <<>>]

ConstructConfig ==
    /\ unit.config = <<>>
    /\ unit' = [unit EXCEPT !.config = <<NewConfig(unit.args)>>]
    /\ UNCHANGED conn_vars

ConstructServer ==
    /\ unit.config # <<>>
    /\ ~unit.config[1].raised
    /\ unit.server = <<>>
    /\ unit' = [unit EXCEPT !.server = <<NewServer(unit.config[1].value)>>]
    /\ UNCHANGED conn_vars

NextConfig == ConstructConfig \/ ConstructServer

SpecConfig == InitConfig /\ [][NextConfig]_vars

(***************************************************************************)
(* SpecRegistry: a RequestHandler on its own.  Handlers are registered, up *)
(* to MaxRegs times, and requests dispatched in between; unit.log keeps    *)
(* the registrations in the order they happened.                           *)
(***************************************************************************)
\* a registry that keeps the handler registered first
reg_handler_keep(registry, trans_code, func) ==
    [t \in DOMAIN registry \cup {trans_code} |->
        IF t \in DOMAIN registry THEN registry[t] ELSE func]

\* reg_handler(trans_code)(func): self._handlers[trans_code] = func
reg_handler(registry, trans_code, func) ==
    [t \in DOMAIN registry \cup {trans_code} |->
        IF t = trans_code THEN func ELSE registry[t]]

\* `if trans_code in self._handlers`: the warning is logged
Overwrites(registry, trans_code) == trans_code \in DOMAIN registry

\* RequestHandler.__init__: self._handlers = {}
NoHandlers == [t \in {} |-> "echo"]

Transactions == {"a", "b"}
HandlerKinds == {"echo", "raise", "number"}
Requests ==
    {Package(t, Bytes(v), "u1", NONE, NONE) : t \in Transactions \cup {"c"},
                                             v \in {"", "hi"}}

InitRegistry ==
    /\ InitServer(Configs({1}, {NoPasskey}))
    /\ client = [c \in Conns |-> NewClient(FALSE, "-")]
    /\ unit = [handlers |-> NoHandlers, log |-> <<>>, warned |-> FALSE,
               ret |-> <<>>]

RegHandler(trans_code, func) ==
    /\ Len(unit.log) < MaxRegs
    /\ unit' = [unit EXCEPT
                  !.handlers = reg_handler(@, trans_code, func),
                  !.warned = Overwrites(unit.handlers, trans_code),
                  !.log = Append(@, [trans_code |-> trans_code, func |-> func])]
    /\ UNCHANGED conn_vars

\* await rh.handle(request); registered is the number of registrations made
\* before the call
Dispatch(request) ==
    /\ unit' = [unit EXCEPT
                  !.ret = <<[request |-> request,
                             registered |-> Len(unit.log),
                             result |-> handle(unit.handlers, request)]>>]
    /\ UNCHANGED conn_vars

NextRegistry ==
    \/ \E trans_code \in Transactions, func \in HandlerKinds :
          RegHandler(trans_code, func)
    \/ \E request \in Requests : Dispatch(request)

SpecRegistry == InitRegistry /\ [][NextRegistry]_vars

(***************************************************************************)
(* SpecSchema: Package.from_bytes on the JSON objects a peer may send.     *)
(* The peer starts from the payload of to_json, removes members, may add   *)
(* one the schema does not know, and frames what is left under a length    *)
(* word that counts it.                                                    *)
(***************************************************************************)
WireKeys == {"protocol_version", "protocol_id", "uuid", "transaction", "from",
             "content", "passkey"}

\* the JSON object without its member key
WithoutKey(obj, key) == SelectSeq(obj, LAMBDA m : m.key # key)

\* the frame a peer builds around a JSON object
FrameOf(obj, flags) == [header |-> pack(5 + PayloadLen(obj)) \o <<flags>>, payload |-> obj]

SchemaPackages ==
    {WirePackage("echo", <<104, 105>>, "u1", from_addr, "2.0", "17", passkey) :
        from_addr \in {NONE, "h:1"}, passkey \in {NONE, "X"}}

InitSchema ==
    /\ InitServer(Configs({1}, {NoPasskey}))
    /\ client = [c \in Conns |-> NewClient(FALSE, "-")]
    /\ \E p \in SchemaPackages :
          unit = [p |-> p, payload |-> wire_to_json(p), received |-> <<>>]

RemoveMember(key) ==
    /\ unit.received = <<>>
    /\ JHas(unit.payload, key)
    /\ unit' = [unit EXCEPT !.payload = WithoutKey(@, key)]
    /\ UNCHANGED conn_vars

AddUnknownMember ==
    /\ unit.received = <<>>
    /\ ~JHas(unit.payload, "x")
    /\ unit' = [unit EXCEPT !.payload = Append(@, [key |-> "x", value |-> JStr("y")])]
    /\ UNCHANGED conn_vars

\* Package.from_bytes(data) on the frame
ReceiveFrame ==
    /\ unit.received = <<>>
    /\ unit' = [unit EXCEPT !.received = <<wire_from_bytes(FrameOf(unit.payload, 0))>>]
    /\ UNCHANGED conn_vars

NextSchema ==
    \/ \E key \in WireKeys : RemoveMember(key)
    \/ AddUnknownMember
    \/ ReceiveFrame

SpecSchema == InitSchema /\ [][NextSchema]_vars

(***************************************************************************)
(* SpecLive: admission under the event loop's scheduling.  NConn peers     *)
(* connect to a server without passkey gate and close when they like; the  *)
(* first of them may answer the handshake.  A task whose future is done,   *)
(* or whose stream has bytes or end of stream to read, is run: every step  *)
(* of _handle_client that stays possible is taken.  Nothing is assumed of  *)
(* the peers.                                                              *)
(***************************************************************************)
InitLive ==
    /\ InitServer(Configs(1..MaxPermits, {NoPasskey}))
    /\ client = [c \in Conns |-> NewClient(FALSE, "-")]
    /\ unit = NONE

\* the steps of connection c's task
TaskStep(c) ==
    \/ ConnResume(c, 1)
    \/ Handshake(c)
    \/ ReadRequest(c)
    \/ \E raises \in BOOLEAN : CloseWriter(c, raises)

NextLive ==
    \/ \E c \in Conns : InOrder(c) /\ Connect(c, 1)
    \/ \E c \in Conns : TaskStep(c)
    \/ PeerSend(1, create_dh_reply_message(1)) /\ sent[1] = <<>>
    \/ \E c \in Conns : PeerClose(c)

SpecLive ==
    InitLive /\ [][NextLive]_vars /\ \A c \in Conns : WF_vars(TaskStep(c))

(***************************************************************************)
(* SpecCancel: one connection whose task may be cancelled (task.cancel()   *)
(* as the loop shuts down).  CancelledError is raised at the await the     *)
(* task is suspended in; with one connection that is never the wait for a  *)
(* semaphore.                                                              *)
(***************************************************************************)
\* CancelledError in _handle_client: from inside the handler it passes
\* `except Exception` of handle and of _process_request, leaves
\* `async with self.processing_semaphore`, and is caught by
\* `except asyncio.CancelledError`, after which the finally block runs
Cancel(c) ==
    /\ pc[c] \in {"handshake", "auth", "serving", "handling"}
    /\ processing_semaphore' = IF pc[c] = "handling"
                               THEN SemRelease(processing_semaphore)
                               ELSE processing_semaphore
    /\ pc' = [pc EXCEPT ![c] = "closing"]
    /\ UNCHANGED <<unit, config, handlers, active_connections, connection_semaphore,
                   private_key, encryption, package, sent, nread, eof, out,
                   handled, auth, client>>

CancelItems(c) ==
    {PeerFrame(c, Package(t, Bytes("hi"), "u1", NONE, NONE)) : t \in {"echo", "fail"}}
    \cup {create_dh_reply_message(1)}

InitCancel ==
    /\ InitServer(Configs({1}, {NoPasskey}))
    /\ client = [c \in Conns |-> NewClient(FALSE, "-")]
    /\ unit = NONE

NextCancel ==
    \/ Connect(1, 2)
    \/ Handshake(1)
    \/ ReadRequest(1)
    \/ process_request(1)
    \/ Cancel(1)
    \/ \E raises \in BOOLEAN : CloseWriter(1, raises)
    \/ \E item \in CancelItems(1) : Len(sent[1]) < MaxFrames /\ PeerSend(1, item)
    \/ PeerClose(1)

SpecCancel == InitCancel /\ [][NextCancel]_vars

(***************************************************************************)
(* SpecHandshake: the DH handshake from both ends, each against a peer     *)
(* that may send anything.  On connection 1 the server of this repository  *)
(* faces an arbitrary client; on connection 2 the Client of this           *)
(* repository faces an arbitrary server, whose writes go to out[2] and     *)
(* whose close shows as pc[2] = "closed".  Both are followed to the end of *)
(* the handshake, which reads one message.                                 *)
(***************************************************************************)
\* json.dumps(message) of create_dh_init_message / create_dh_reply_message
DhJson(item) ==
    IF item.type = "dh_init"
    THEN <<[key |-> "type", value |-> JStr(item.type)],
           [key |-> "p", value |-> JInt(ToString(DH_P))],
           [key |-> "g", value |-> JInt(ToString(DH_G))],
           [key |-> "public", value |-> JInt(ToString(item.public))]>>
    ELSE <<[key |-> "type", value |-> JStr(item.type)],
           [key |-> "public", value |-> JInt(ToString(item.public))]>>

\* a handshake message framed like a Package: length of the whole frame,
\* then a flags byte
send_flagged(data) == [header |-> pack(5 + PayloadLen(data)) \o <<0>>, payload |-> data]

\* Server._send_raw, PackageIO.send_raw: struct.pack(">I", len(data)) + data
send_raw(data) == [header |-> pack(PayloadLen(data)), payload |-> data]

\* Server._receive_raw, PackageIO.receive_raw on the bytes of one frame:
\* 4 bytes of length, then readexactly(length)
receive_raw(frame) ==
    LET length == unpack(SubSeq(frame.header, 1, 4))
        rest == Len(frame.header) - 4 + PayloadLen(frame.payload)
    IN IF rest < length THEN Raised("IncompleteReadError")
       ELSE IF Len(frame.header) = 4 /\ length = rest THEN Returned(frame.payload)
       ELSE Raised("JSONDecodeError")

\* parse_dh_message(data).get("type")
DhType(data) == JGet(data, "type")

HandshakeItems ==
    {create_dh_reply_message(1),
     create_dh_init_message(1),
     [create_dh_reply_message(1) EXCEPT !.type = "dh_hello"],
     [create_dh_reply_message(1) EXCEPT !.ok = FALSE],
     Request("echo", "hi", "u1")}

\* the server the Client talks to writes an item
ServerSend(c, item) ==
    /\ client[c].socket = "open"
    /\ pc[c] = "new"
    /\ client[c].pc = "hs_recv"
    /\ out[c] = <<>>
    /\ out' = [out EXCEPT ![c] = Append(@, item)]
    /\ UNCHANGED <<unit, config, handlers, active_connections, connection_semaphore,
                   processing_semaphore, pc, private_key, encryption, package,
                   sent, nread, eof, handled, auth, client>>

\* the server the Client talks to closes the connection
ServerClose(c) ==
    /\ client[c].socket = "open"
    /\ pc[c] = "new"
    /\ pc' = [pc EXCEPT ![c] = "closed"]
    /\ UNCHANGED <<unit, config, handlers, active_connections, connection_semaphore,
                   processing_semaphore, private_key, encryption, package,
                   sent, nread, eof, out, handled, auth, client>>

InitHandshake ==
    /\ InitServer({cfg \in Configs({1}, {NoPasskey}) : cfg.dh_encryption})
    /\ client = [c \in Conns |-> NewClient(TRUE, "-")]
    /\ unit = NONE

NextHandshake ==
    \/ \E a \in 1..MaxExp : Connect(1, a)
    \/ Handshake(1)
    \/ \E raises \in BOOLEAN : CloseWriter(1, raises)
    \/ \E item \in HandshakeItems :
          pc[1] = "handshake" /\ sent[1] = <<>> /\ PeerSend(1, item)
    \/ pc[1] = "handshake" /\ PeerClose(1)
    \/ connect(2)
    \/ perform_handshake(2)
    \/ \E item \in HandshakeItems : ServerSend(2, item)
    \/ ServerClose(2)

SpecHandshake == InitHandshake /\ [][NextHandshake]_vars

(***************************************************************************)
(* SpecRecord: one frame on an encrypted connection, byte by byte, from    *)
(* the sender's Package to the receiver's.  The sender is the Client       *)
(* (send) or the server (_send_package), the receiver the other side       *)
(* (_read_package, receive).  Both hold the key of a completed handshake.  *)
(***************************************************************************)
\* json.dumps(obj).encode("utf-8"): byte i of the text of obj
json_bytes(obj) == [i \in 1..PayloadLen(obj) |-> [json |-> obj, at |-> i]]

\* json.loads(payload.decode("utf-8")) of bytes that came out of json_bytes
json_loads(payload) ==
    IF payload = <<>> THEN Raised("JSONDecodeError")
    ELSE IF payload = json_bytes(payload[1].json) THEN Returned(payload[1].json)
    ELSE Raised("JSONDecodeError")

\* a length word that leaves the IV out
LengthWithoutIV(payload) == 5 + Len(payload) - 16

\* new_length = 5 + len(encrypted_payload); new_length = 5 + len(payload)
new_length(payload) == 5 + Len(payload)

\* Client.send and Server._send_package from to_bytes on: the frame written
send_frame(p, encrypted, response, d, iv) ==
    LET data == wire_to_bytes(p, encrypted, response) IN
    IF encrypted /\ d.aes_key # NoKey
    THEN LET flags == data.header[5]
             encrypted_payload == encrypt(d, json_bytes(data.payload), iv).ret.value
         IN [header |-> pack(new_length(encrypted_payload)) \o <<flags>>,
             payload |-> encrypted_payload]
    ELSE [header |-> data.header, payload |-> json_bytes(data.payload)]

\* Server._read_package and Client.receive from the frame read to the data
\* handed to from_bytes: header and payload, or what decrypt raised
receive_frame(frame, d) ==
    IF d.aes_key # NoKey /\ wire_is_encrypted(frame)
    THEN LET flags == frame.header[5]
             payload == decrypt(d, frame.payload, 0).ret
         IN IF payload.raised THEN payload
            ELSE Returned([header |-> pack(new_length(payload.value)) \o <<flags>>,
                           payload |-> payload.value])
    ELSE Returned(frame)

\* Package.from_bytes on header and payload bytes
bytes_from_bytes(data) ==
    IF Len(data.header) + Len(data.payload) # unpack(SubSeq(data.header, 1, 4))
    THEN Raised("ValueError: Length mismatch")
    ELSE IF json_loads(data.payload).raised THEN json_loads(data.payload)
    ELSE wire_from_bytes([header |-> data.header,
                          payload |-> json_loads(data.payload).value])

\* transactions of every length modulo the block size
RecordTransactions ==
    {"", "e", "ec", "ech", "echo", "echo1", "echo12", "echo123", "echo1234",
     "echo12345", "echo123456", "echo1234567", "echo12345678", "echo123456789",
     "echo123456789a", "echo123456789ab"}

RecordPackages ==
    {WirePackage(t, content, "u1", NONE, NONE, NONE, NONE) :
        t \in RecordTransactions, content \in {<<>>, <<104, 105>>}}

InitRecord ==
    /\ InitServer(Configs({1}, {NoPasskey}))
    /\ client = [c \in Conns |-> NewClient(FALSE, "-")]
    /\ \E p \in RecordPackages, response \in BOOLEAN :
          unit = [p |-> p, response |-> response,
                  d |-> AfterHandshakes(2, ClientExp),
                  iv |-> <<>>, frame |-> <<>>, received |-> <<>>]

\* the sender writes the frame: the server a response, the Client a request
SendFrame(iv) ==
    /\ unit.frame = <<>>
    /\ LET side == IF unit.response THEN "server" ELSE "client" IN
       unit' = [unit EXCEPT
                  !.iv = iv,
                  !.frame = <<send_frame(unit.p, TRUE, unit.response,
                                         unit.d[side], iv)>>]
    /\ UNCHANGED conn_vars

\* the other side reads it
ReceiveRecord ==
    /\ unit.frame # <<>>
    /\ unit.received = <<>>
    /\ LET side == IF unit.response THEN "client" ELSE "server"
           data == receive_frame(unit.frame[1], unit.d[side])
       IN unit' = [unit EXCEPT
                     !.received = <<[data |-> data,
                                     package |-> IF data.raised THEN data
                                                 ELSE bytes_from_bytes(data.value)]>>]
    /\ UNCHANGED conn_vars

NextRecord ==
    \/ \E iv \in IVs : SendFrame(iv)
    \/ ReceiveRecord

SpecRecord == InitRecord /\ [][NextRecord]_vars

(***************************************************************************)
(* SpecDrain: _process_request with writer.drain() as a step of its own.   *)
(* unit[c] counts the response frames the peer of connection c has taken   *)
(* off its socket; the socket buffers and the transport's write buffer     *)
(* hold MaxBuffered frames between them, and drain() returns once no more  *)
(* than that are waiting.  Servers without DH and without passkey gate;    *)
(* the peers send MaxBuffered + 2 requests between them, enough for one    *)
(* connection to stall and another to ask for a permit.                    *)
(***************************************************************************)
\* frames of connection c written and not yet read by the peer
Backlog(c) == Len(out[c]) - unit[c]

\* a processing permit given back as soon as the response is written
ReleasedAtWrite(s, blocked) == SemRelease(s)

\* the processing semaphore after writer.write(data): the `async with` block
\* is left only when drain() has returned
HeldThroughDrain(s, blocked) == IF blocked THEN s ELSE SemRelease(s)

\* _process_request from the handler's return to `await writer.drain()`
SendResponse(c) ==
    /\ pc[c] = "handling"
    /\ out' = [out EXCEPT ![c] =
                  Append(@, send_package(ResponseFor(package[c]), encryption[c]))]
    /\ LET blocked == Backlog(c) + 1 > MaxBuffered IN
       /\ processing_semaphore' = HeldThroughDrain(processing_semaphore, blocked)
       /\ pc' = [pc EXCEPT ![c] = IF blocked THEN "draining" ELSE AfterRequest]
       /\ package' = [package EXCEPT ![c] = IF blocked THEN @ ELSE NoPackage]
    /\ UNCHANGED <<unit, config, handlers, active_connections, connection_semaphore,
                   private_key, encryption, sent, nread, eof, handled, auth, client>>

\* drain() returns: the peer has read, the write buffer is below its mark
DrainResume(c) ==
    /\ pc[c] = "draining"
    /\ Backlog(c) <= MaxBuffered
    /\ processing_semaphore' = SemRelease(processing_semaphore)
    /\ pc' = [pc EXCEPT ![c] = AfterRequest]
    /\ package' = [package EXCEPT ![c] = NoPackage]
    /\ UNCHANGED <<unit, config, handlers, active_connections, connection_semaphore,
                   private_key, encryption, sent, nread, eof, out, handled, auth,
                   client>>

\* drain() raises: the connection was lost.  The error leaves
\* _process_request and the `async with` block and ends the serving loop
DrainLost(c) ==
    /\ pc[c] = "draining"
    /\ eof[c]
    /\ processing_semaphore' = SemRelease(processing_semaphore)
    /\ pc' = [pc EXCEPT ![c] = "closing"]
    /\ package' = [package EXCEPT ![c] = NoPackage]
    /\ UNCHANGED <<unit, config, handlers, active_connections, connection_semaphore,
                   private_key, encryption, sent, nread, eof, out, handled, auth,
                   client>>

\* the peer reads a frame
PeerRead(c) ==
    /\ Backlog(c) > 0
    /\ ~eof[c]
    /\ unit' = [unit EXCEPT ![c] = @ + 1]
    /\ UNCHANGED conn_vars

\* the requests the peer of connection c sends: the first peer's handlers
\* return or raise, the others' return
DrainItems(c) ==
    IF c = 1 THEN {Request("echo", "hi", "u1"), Request("fail", "hi", "u2")}
    ELSE {Request("echo", "hi", "u1")}

InitDrain ==
    /\ InitServer({cfg \in Configs(1..MaxPermits, {NoPasskey}) : ~cfg.dh_encryption})
    /\ client = [c \in Conns |-> NewClient(FALSE, "-")]
    /\ unit = [c \in Conns |-> 0]

NextDrain ==
    \/ \E c \in Conns : InOrder(c) /\ Connect(c, 1)
    \/ \E c \in Conns : ConnResume(c, 1)
    \/ \E c \in Conns : ReadRequest(c)
    \/ \E c \in Conns : ProcResume(c)
    \/ \E c \in Conns : SendResponse(c)
    \/ \E c \in Conns : DrainResume(c)
    \/ \E c \in Conns : DrainLost(c)
    \/ \E c \in Conns : CloseWriter(c, FALSE)
    \/ \E c \in Conns : \E item \in DrainItems(c) :
          SumLen(sent, Conns) < MaxBuffered + 2 /\ InTurn(c) /\ pc[c] # "draining"
             /\ PeerSend(c, item)
    \/ \E c \in Conns : PeerRead(c)
    \/ \E c \in Conns : pc[c] = "draining" /\ PeerClose(c)

SpecDrain == InitDrain /\ [][NextDrain]_vars

(***************************************************************************)
(* SpecProgress: both semaphores under the event loop's scheduling.  NConn *)
(* peers connect to a server without DH and without passkey gate and send  *)
(* MaxSent requests between them; a peer closes when the server has read   *)
(* what it sent.  Every task whose await has completed is run: weak        *)
(* fairness of each connection task's steps, the handler's return and the  *)
(* response write among them.  Nothing is assumed of the peers.            *)
(***************************************************************************)
\* the steps of connection c's task
ServeStep(c) ==
    \/ ConnResume(c, 1)
    \/ ReadRequest(c)
    \/ ProcResume(c)
    \/ process_request(c)
    \/ \E raises \in BOOLEAN : CloseWriter(c, raises)

InitProgress ==
    /\ InitServer({cfg \in Configs(1..MaxPermits, {NoPasskey}) : ~cfg.dh_encryption})
    /\ client = [c \in Conns |-> NewClient(FALSE, "-")]
    /\ unit = NONE

NextProgress ==
    \/ \E c \in Conns : InOrder(c) /\ Connect(c, 1)
    \/ \E c \in Conns : ServeStep(c)
    \/ \E c \in Conns :
          SumLen(sent, Conns) < MaxSent /\ InTurn(c)
             /\ PeerSend(c, Request("echo", "hi", "u1"))
    \/ \E c \in Conns : ~HasInput(c) /\ PeerClose(c)

SpecProgress ==
    InitProgress /\ [][NextProgress]_vars /\ \A c \in Conns : WF_vars(ServeStep(c))

(***************************************************************************)
(* Admission bounds.                                                       *)
(***************************************************************************)
\* connections past `async with self.connection_semaphore`, not yet out of it
Admitted ==
    {c \in Conns : pc[c] \in {"handshake", "auth", "serving", "proc_wait",
                              "handling", "closing"}}

\* connections inside `async with self.processing_semaphore`
InDispatch == {c \in Conns : pc[c] = "handling"}

\* connections that hold a connection permit, resumed from acquire() or not
PermitHolders == Admitted \cup connection_semaphore.granted

NoProtocolStep(c) ==
    /\ out'[c] = out[c]
    /\ nread'[c] = nread[c]
    /\ handled'[c] = handled[c]

\* C1: at most max_connections connections are past the connection semaphore
\* and at most handle_connections are inside handler dispatch; a connection
\* that is not past the semaphore has written nothing, read nothing and run no
\* handler, and while max_connections connections are admitted it takes no
\* protocol step: it gets past only with a permit an admitted connection
\* released in closing, handed to it by that release or passed on by a waiter
\* resuming before it; permits are returned by closing connections only.
C1_AdmissionBounds ==
    /\ [](/\ Cardinality(Admitted) <= config.max_connections
          /\ Cardinality(InDispatch) <= config.handle_connections
          /\ \A c \in Conns : pc[c] \in {"new", "conn_wait"} =>
                out[c] = <<>> /\ nread[c] = 0 /\ handled[c] = <<>>)
    /\ [][\A c \in Conns :
            /\ (Cardinality(Admitted) = config.max_connections /\ c \notin Admitted
                   /\ pc[c] # "closed")
               => NoProtocolStep(c) /\ c \notin Admitted'
            /\ (pc[c] = "conn_wait" /\ c \in Admitted')
               => c \in connection_semaphore.granted
            /\ (c \notin connection_semaphore.granted
                   /\ c \in connection_semaphore'.granted)
               => \/ \E d \in Admitted : pc'[d] = "closed"
                  \/ /\ connection_semaphore.value > 0
                     /\ \E d \in connection_semaphore.granted :
                            pc[d] = "conn_wait" /\ d \in Admitted'
            /\ connection_semaphore'.value > connection_semaphore.value
               => \E d \in Admitted : pc'[d] = "closed"]_vars

\* C1 witness: two permits, both taken, one handler running under the only
\* processing permit, one request waiting for it, a third connection waiting
\* for a connection permit
C1_Witness ==
    /\ config.max_connections = 2
    /\ Cardinality(Admitted) = 2
    /\ Cardinality(InDispatch) = config.handle_connections
    /\ \E d \in Conns : pc[d] = "proc_wait"
    /\ \E c \in Conns : pc[c] = "conn_wait"

Responses(c) == SelectSeq(out[c], LAMBDA f : ~f.raw)

\* what the peer decodes from a frame, as Client.receive does
PeerDecode(c, f) ==
    from_bytes(IF PeerKey(c) # NoKey /\ is_encrypted(f)
               THEN Decrypt(PeerKey(c), f) ELSE f)

Serving(c) == pc[c] \in {"serving", "proc_wait", "handling"}
Closed(c) == pc[c] \in {"closing", "closed"}

\* the steps _handle_client may take from one state to the next
StepAllowed(from, to) ==
    \/ from = to
    \/ from \in {"new", "conn_wait"} /\ to = "conn_wait" /\ from = "new"
    \/ from \in {"new", "conn_wait"} /\ to = "handshake" /\ config.dh_encryption
    \/ from \in {"new", "conn_wait"} /\ ~config.dh_encryption
          /\ to = (IF PasskeyRequired THEN "auth" ELSE "serving")
    \/ from = "handshake" /\ to \in {IF PasskeyRequired THEN "auth" ELSE "serving",
                                     "closing"}
    \/ from = "auth" /\ to \in {"serving", "closing"}
    \/ from = "serving" /\ to \in {"proc_wait", "handling", "closing"}
    \/ from = "proc_wait" /\ to = "handling"
    \/ from = "handling" /\ to = "serving"
    \/ from = "closing" /\ to = "closed"

\* the dh_reply the handshake step is about to read is missing (the stream
\* ended), is not a handshake message that parses, or has another type
BadReply(c) ==
    \/ nread[c] = Len(sent[c])
    \/ ~sent[c][nread[c] + 1].raw
    \/ ~sent[c][nread[c] + 1].ok
    \/ sent[c][nread[c] + 1].type # "dh_reply"

\* C3: a connection goes Accepted -> Handshaking (iff dh_encryption) ->
\* Authenticating (iff connect_passkey is a non-empty string) -> Serving ->
\* Closed; it is in Serving, has read its auth frame, or has had a handler
\* dispatched only with the handshake (when configured) completed and the
\* passkey check (when configured) passed; a handshake that fails closes the
\* connection at once, with nothing written and no key installed.
C3_StateOrder ==
    /\ [](\A c \in Conns :
            /\ pc[c] = "handshake" => config.dh_encryption
            /\ pc[c] = "auth" => PasskeyRequired
            /\ (Serving(c) \/ auth[c].done \/ handled[c] # <<>>)
                  => (config.dh_encryption => encryption[c] # NoKey)
            /\ (Serving(c) \/ handled[c] # <<>>)
                  => (PasskeyRequired => auth[c].done /\ auth[c].result)
            /\ (~config.dh_encryption => encryption[c] = NoKey)
            /\ (~PasskeyRequired => ~auth[c].done))
    /\ [][\A c \in Conns :
            /\ StepAllowed(pc[c], pc'[c])
            /\ (pc[c] = "handshake" /\ pc'[c] # "handshake")
                  => IF BadReply(c)
                     THEN pc'[c] = "closing" /\ encryption'[c] = NoKey
                          /\ out'[c] = out[c] /\ handled'[c] = <<>>
                     ELSE pc'[c] # "closing" /\ encryption'[c] # NoKey]_vars

\* C3 witness: with DH configured and an empty-string passkey (no gate), a
\* handler has run on a key the handshake installed
C3_Witness ==
    /\ config.dh_encryption
    /\ config.connect_passkey = ""
    /\ encryption[1] # NoKey
    /\ handled[1] # <<>>

\* C4 as stated: with connect_passkey a non-empty string X, a first
\* post-handshake frame that is the `_auth` package carrying X authenticates
\* the connection
C4_PasskeyAccepted ==
    \A c \in Conns :
        (PasskeyRequired /\ auth[c].done
            /\ auth[c].package = AuthPackage(config.connect_passkey))
        => auth[c].result

\* the first frame is a decodable `_auth` package carrying the configured
\* passkey, in its passkey field or in its content
CarriesPasskey(p) ==
    /\ p.transaction = "_auth"
    /\ \/ p.passkey = config.connect_passkey
       \/ p.content = AuthPackage(config.connect_passkey).content

\* C5: with connect_passkey set, a first frame that is missing or malformed,
\* is not `_auth` or carries another passkey closes the connection before any
\* handler runs; the Authenticating step writes nothing to the peer, whatever
\* its outcome.
C5_PasskeyGate ==
    /\ [](\A c \in Conns :
            (PasskeyRequired /\ auth[c].done /\ ~CarriesPasskey(auth[c].package))
            => Closed(c) /\ handled[c] = <<>>)
    /\ [][\A c \in Conns : pc[c] = "auth" => out'[c] = out[c]]_vars

\* C5 witness: an `_auth` package with the wrong passkey was read and the
\* connection is closed
C5_Witness ==
    /\ PasskeyRequired
    /\ auth[1].done
    /\ auth[1].package = AuthPackage("bad")
    /\ pc[1] = "closed"

\* the message of the error dispatch ends with, "" if it succeeds
FailureOf(p) ==
    CASE p.transaction = "nope" -> "Unknown transaction: nope"
      [] p.transaction = "_auth" -> "Unknown transaction: _auth"
      [] p.transaction = "fail" -> "handler failed"
      [] p.transaction = "num" -> "Handler must return bytes, got int"
      [] OTHER -> ""

C7_ErrorEcho ==
    \A c \in Conns : \A i \in 1..Len(Responses(c)) :
        FailureOf(handled[c][i]) # ""
        => /\ PeerDecode(c, Responses(c)[i]).uuid = handled[c][i].uuid
           /\ PeerDecode(c, Responses(c)[i]).transaction = handled[c][i].transaction
           /\ PeerDecode(c, Responses(c)[i]).content
                 = Bytes(ErrorJson(FailureOf(handled[c][i])))

\* C8: the response to a request whose handler returns bytes b has the
\* request's uuid and transaction, from "<host>:<port>", content b, and its
\* frame has FLAG_RESPONSE set and FLAG_ENCRYPTED set iff the connection has a
\* session key (the payload then being encrypted under it).
C8_ResponseFields ==
    \A c \in Conns : \A i \in 1..Len(Responses(c)) :
        FailureOf(handled[c][i]) = ""
        => /\ PeerDecode(c, Responses(c)[i]).uuid = handled[c][i].uuid
           /\ PeerDecode(c, Responses(c)[i]).transaction = handled[c][i].transaction
           /\ PeerDecode(c, Responses(c)[i]).from_addr = "localhost:9576"
           /\ PeerDecode(c, Responses(c)[i]).content = handled[c][i].content
           /\ is_response(Responses(c)[i])
           /\ is_encrypted(Responses(c)[i]) <=> encryption[c] # NoKey
           /\ Responses(c)[i].key = encryption[c]
           /\ Responses(c)[i].key = PeerKey(c)

\* C8 witness: an echo request answered on an encrypted connection
C8_Witness ==
    /\ encryption[1] # NoKey
    /\ Len(Responses(1)) >= 1
    /\ handled[1][1] = Package("echo", Bytes("hi"), "u1", NONE, NONE)

\* C9 as stated: requests of one connection are served in arrival order, the
\* next is read only after the response to the one before is written, every
\* dispatched request gets exactly one response frame, and the i-th response
\* carries the uuid of the i-th request
C9_Sequential ==
    /\ [](\A c \in Conns :
            /\ Len(Responses(c)) =
                  Len(handled[c]) - (IF pc[c] = "handling" THEN 1 ELSE 0)
            /\ \A i \in 1..Len(Responses(c)) :
                  PeerDecode(c, Responses(c)[i]).uuid = handled[c][i].uuid)
    /\ [][\A c \in Conns :
            /\ nread'[c] # nread[c] => Len(Responses(c)) = Len(handled[c])
            /\ Len(handled'[c]) <= Len(handled[c]) + 1
            /\ Len(out'[c]) <= Len(out[c]) + 1]_vars

(***************************************************************************)
(* Client.ask.                                                             *)
(***************************************************************************)
\* the completed ask calls of the client of connection c
Asks(c) == SelectSeq(client[c].log, LAMBDA e : e.call = "ask")

\* C10: an ask that returned, returned the next frame of the connection and
\* that frame's uuid is the uuid of the package asked with; an ask whose next
\* frame carries another uuid raised the uuid-mismatch error (a ValueError)
\* and returned nothing.
C10_AskCorrelation ==
    \A i \in 1..Len(Asks(1)) :
        LET e == Asks(1)[i] IN
        /\ e.error = NONE =>
              /\ e.index \in 1..Len(out[1])
              /\ e.value = PeerDecode(1, out[1][e.index])
              /\ e.value.uuid = e.package.uuid
        /\ (/\ e.index \in 1..Len(out[1])
            /\ ~out[1][e.index].raw
            /\ PeerDecode(1, out[1][e.index]).uuid # e.package.uuid)
           => /\ e.error = "ValueError: Response UUID mismatch"
              /\ e.value = NoPackage

\* C10 witness: one ask returned the response to its request, and another,
\* made after a send whose response was never received, got that response and
\* raised
C10_Witness ==
    /\ \E i \in 1..Len(Asks(1)) :
          /\ Asks(1)[i].error = NONE
          /\ Asks(1)[i].value.uuid = Asks(1)[i].package.uuid
    /\ \E i \in 1..Len(Asks(1)) :
          /\ Asks(1)[i].error = "ValueError: Response UUID mismatch"
          /\ Asks(1)[i].index > 0
          /\ PeerDecode(1, out[1][Asks(1)[i].index]).uuid # Asks(1)[i].package.uuid
          /\ \E j \in 1..Len(client[1].log) : client[1].log[j].call = "send"

(***************************************************************************)
(* Codec.                                                                  *)
(***************************************************************************)
\* C11: from_bytes(p.to_bytes(encrypted, is_response)) returns a Package
\* equal to p on transaction, content, uuid, from_addr, protocol_version,
\* protocol_id and passkey, for every flag combination.
C11_RoundTrip ==
    unit.stage = "decoded" =>
        /\ ~unit.decoded.raised
        /\ unit.decoded.value.transaction = unit.p.transaction
        /\ unit.decoded.value.content = unit.p.content
        /\ unit.decoded.value.uuid = unit.p.uuid
        /\ unit.decoded.value.from_addr = unit.p.from_addr
        /\ unit.decoded.value.protocol_version = unit.p.protocol_version
        /\ unit.decoded.value.protocol_id = unit.p.protocol_id
        /\ unit.decoded.value.passkey = unit.p.passkey

\* C11 witness: a package with four content bytes, no from_addr and an empty
\* passkey has gone through to_bytes(encrypted, is_response) and from_bytes
C11_Witness ==
    /\ unit.stage = "decoded"
    /\ unit.p.content = <<0, 255, 255, 0>>
    /\ unit.p.from_addr = NONE
    /\ unit.p.passkey = ""
    /\ unit.encrypted /\ unit.response
    /\ unit.decoded.value.content = <<0, 255, 255, 0>>

\* C12: the length word of a frame from to_bytes is 5 + len(payload), the
\* frame's whole length, big-endian; of the flags byte bit 0 is set iff
\* encrypted was asked for, bit 1 iff the package has a passkey, bit 2 iff
\* is_response, bits 3-7 never; is_encrypted, has_passkey and is_response
\* read those bits back.
C12_Header ==
    unit.stage \in {"frame", "decoded"} =>
        LET h == unit.data.header IN
        /\ Len(h) = 5
        /\ \A i \in 1..5 : h[i] \in 0..255
        /\ h[1] * 16777216 + h[2] * 65536 + h[3] * 256 + h[4]
              = 5 + PayloadLen(unit.data.payload)
        /\ h[1] * 16777216 + h[2] * 65536 + h[3] * 256 + h[4] = WireLen(unit.data)
        /\ h[5] % 2 = 1 <=> unit.encrypted
        /\ (h[5] \div 2) % 2 = 1 <=> unit.p.passkey # NONE
        /\ (h[5] \div 4) % 2 = 1 <=> unit.response
        /\ h[5] \div 8 = 0
        /\ wire_is_encrypted(unit.data) <=> unit.encrypted
        /\ wire_has_passkey(unit.data) <=> unit.p.passkey # NONE
        /\ wire_is_response(unit.data) <=> unit.response

\* C12 witness: a response frame with a passkey, not encrypted: flags 6
C12_Witness ==
    /\ unit.stage = "frame"
    /\ unit.p.passkey = "X"
    /\ unit.response /\ ~unit.encrypted
    /\ unit.data.header[5] = 6
    /\ unit.data.header[4] > 5

(***************************************************************************)
(* Session crypto.                                                         *)
(***************************************************************************)
\* each side derived its key from the other's public key, on the same group
HandshakeCompleted ==
    /\ unit.derived["server"] /\ unit.derived["client"]
    /\ unit.used["server"] = unit.d["client"].public_key
    /\ unit.used["client"] = unit.d["server"].public_key
    /\ unit.d["server"].parameters = unit.d["client"].parameters

\* C13: after a completed handshake both sides hold the same aes_key, for
\* every pair of private exponents, and what one side encrypted the other
\* decrypts to the plaintext, whatever its length.
C13_KeyAgreement ==
    HandshakeCompleted =>
        /\ unit.d["server"].aes_key = unit.d["client"].aes_key
        /\ unit.d["server"].aes_key # NoKey
        /\ (unit.ret.call = "decrypt" /\ unit.ret.from = "peer")
           => /\ ~unit.ret.ret.raised
              /\ unit.ret.ret.value = unit.ret.plaintext

\* C13 witness: exponents 3 and 4, a plaintext of 16 bytes encrypted by the
\* client and decrypted by the server
C13_Witness ==
    /\ HandshakeCompleted
    /\ unit.d["server"].private_key = 3
    /\ unit.d["client"].private_key = 4
    /\ unit.ret.call = "decrypt" /\ unit.ret.from = "peer" /\ unit.ret.by = "server"
    /\ unit.ret.plaintext = Fill(16, 16)
    /\ unit.ret.ret = Returned(Fill(16, 16))

\* C14: a DHEncryption gets its parameters, then its keys, then its AES key,
\* and loses none of them; encrypt and decrypt called on an object whose
\* compute_shared_key has not succeeded raise and return no data, and
\* get_public_numbers and compute_shared_key called on an object without
\* parameters and keys raise and leave the object as it was.
C14_CryptoState ==
    /\ [](/\ \A side \in Sides :
                /\ unit.d[side].aes_key # NoKey <=> unit.derived[side]
                /\ unit.d[side].aes_key # NoKey => unit.d[side].private_key # 0
                /\ unit.d[side].private_key # 0 <=> unit.d[side].public_key # 0
                /\ unit.d[side].private_key # 0 => unit.d[side].parameters # <<>>
          /\ (unit.ret.call \in {"encrypt", "decrypt"} /\ ~unit.ret.derived)
             => unit.ret.ret.raised
          /\ (unit.ret.call \in {"get_public_numbers", "compute_shared_key"}
                 /\ ~unit.ret.keyed)
             => unit.ret.ret.raised)
    /\ [][\A side \in Sides :
            /\ unit.d[side].parameters # <<>> => unit'.d[side].parameters # <<>>
            /\ unit.d[side].private_key # 0 => unit'.d[side].private_key # 0
            /\ unit.d[side].aes_key # NoKey => unit'.d[side].aes_key # NoKey
            /\ (unit'.ret.ret.raised /\ unit'.ret.by = side)
               => unit'.d[side] = unit.d[side]]_vars

\* C14 witness: the client has derived its key and encrypted, the server,
\* which has keys but has not called compute_shared_key, was asked to decrypt
\* and raised
C14_Witness ==
    /\ unit.derived["client"] /\ ~unit.derived["server"]
    /\ unit.d["server"].private_key # 0
    /\ unit.ret.call = "decrypt" /\ unit.ret.by = "server" /\ unit.ret.from = "peer"
    /\ unit.ret.ret = Raised("RuntimeError: Shared key not computed")

\* C15 as stated: _unpad, at the end of decrypt, rejects padded data whose
\* final byte n is 0 or above 16 or whose last n bytes are not all n, and
\* returns the data without its last n bytes otherwise
C15_Unpad ==
    (unit.ret.call = "decrypt" /\ unit.ret.from = "crafted") =>
        LET data == unit.ret.padded
            n == data[Len(data)]
            valid == /\ 1 <= n /\ n <= 16
                     /\ \A i \in (Len(data) - n + 1)..Len(data) : data[i] = n
        IN IF valid
           THEN unit.ret.ret = Returned(SubSeq(data, 1, Len(data) - n))
           ELSE unit.ret.ret.raised

(***************************************************************************)
(* Frame errors.                                                           *)
(***************************************************************************)
\* the item _read_package is about to read is one of the faulty frames
ReadsFault(c) ==
    /\ pc[c] = "serving"
    /\ HasInput(c)
    /\ \E kind \in FaultKinds : NextItem(c) = FaultTable[encryption[c]][kind]

\* C16: a frame the server fails to read in Serving (length word below 5,
\* stream ended inside the frame, ciphertext shorter than an IV or badly
\* padded, payload that is no Package) closes the connection: no handler is
\* called for it, nothing is written, and the connection reads no further
\* frame and writes nothing once it closes.
C16_FrameErrorCloses ==
    [][\A c \in Conns :
         /\ (ReadsFault(c) /\ nread'[c] # nread[c])
            => /\ pc'[c] = "closing"
               /\ handled'[c] = handled[c]
               /\ out'[c] = out[c]
         /\ pc[c] \in {"closing", "closed"}
            => /\ pc'[c] \in {"closing", "closed"}
               /\ nread'[c] = nread[c]
               /\ handled'[c] = handled[c]
               /\ out'[c] = out[c]]_vars

\* C16 witness: on an encrypted connection a request was answered, then a
\* badly padded frame was read; the connection is closed with one handler
\* call made and one response written
C16_Witness ==
    /\ encryption[1] # NoKey
    /\ pc[1] = "closed"
    /\ Len(sent[1]) = 3
    /\ sent[1][3] = FaultTable[encryption[1]]["bad_padding"]
    /\ nread[1] = 3
    /\ Len(handled[1]) = 1
    /\ Len(Responses(1)) = 1

\* the maximum frame length the protocol text gives
MaxFrameLength == 16 * 1024 * 1024

\* the frame _read_package is about to read announces more than
\* MaxFrameLength bytes
ReadsOversize(c) ==
    /\ HasInput(c)
    /\ "length" \in DOMAIN NextItem(c)
    /\ NextItem(c).length > MaxFrameLength

\* C17: a frame whose length word exceeds MaxFrameLength is rejected and the
\* connection closed: reading it moves the connection to teardown and no
\* handler is called for it.
C17_FrameCap ==
    [][\A c \in Conns :
         (ReadsOversize(c) /\ nread'[c] # nread[c])
         => /\ pc'[c] = "closing"
            /\ handled'[c] = handled[c]]_vars

(***************************************************************************)
(* Configuration.                                                          *)
(***************************************************************************)
\* C18: Config(...) succeeds iff 1 <= handle_connections <= max_connections
\* and raises otherwise; a Server is only built from a Config that was
\* constructed, and its semaphores hold max_connections and
\* handle_connections permits, so 1 <= processing <= connection capacity.
C18_ConfigValidation ==
    /\ unit.config # <<>>
       => /\ ~unit.config[1].raised
             <=> /\ 1 <= unit.args.handle_connections
                 /\ unit.args.handle_connections <= unit.args.max_connections
          /\ ~unit.config[1].raised => unit.config[1].value = unit.args
    /\ unit.server # <<>>
       => /\ unit.config # <<>> /\ ~unit.config[1].raised
          /\ unit.server[1].connection_semaphore.value = unit.args.max_connections
          /\ unit.server[1].processing_semaphore.value = unit.args.handle_connections
          /\ 1 <= unit.server[1].processing_semaphore.value
          /\ unit.server[1].processing_semaphore.value
             <= unit.server[1].connection_semaphore.value

\* C18 witness: a Server built on equal capacities, the largest accepted
C18_Witness ==
    /\ unit.server # <<>>
    /\ unit.args.handle_connections = unit.args.max_connections
    /\ unit.server[1].connection_semaphore.value = MaxPermits + 1

\* C18 witness of a rejection: handle_connections above max_connections,
\* both at least 1
C18_WitnessRejected ==
    /\ unit.config # <<>>
    /\ unit.config[1].raised
    /\ unit.args.max_connections >= 1
    /\ unit.args.handle_connections > unit.args.max_connections

(***************************************************************************)
(* Handler registry.                                                       *)
(***************************************************************************)
\* the registrations for trans_code among the first n, by position
RegisteredAt(trans_code, n) ==
    {i \in 1..n : unit.log[i].trans_code = trans_code}

\* the handler registered last for trans_code among the first n registrations
LastRegistered(trans_code, n) ==
    unit.log[CHOOSE i \in RegisteredAt(trans_code, n) :
                \A j \in RegisteredAt(trans_code, n) : j <= i].func

C20_ActiveConnections ==
    /\ active_connections = Cardinality(Admitted)
    /\ Admitted = {} => active_connections = 0

(***************************************************************************)
(* Teardown.                                                               *)
(***************************************************************************)
\* C21: whatever writer.close() / wait_closed() does, the teardown of a
\* connection runs to its end: the step that closes the connection
\* decrements active_connections and releases the connection permit.
C21_TeardownCompletes ==
    [][\A c \in Conns :
         (pc[c] = "closing" /\ pc'[c] = "closed")
         => /\ active_connections' = active_connections - 1
            /\ connection_semaphore' = SemRelease(connection_semaphore)]_vars

(***************************************************************************)
(* Wire schema.                                                            *)
(***************************************************************************)
RequiredKeys == WireKeys \ {"passkey"}

\* the keys of WireKeys the received object lacks
MissingKeys == {key \in WireKeys : ~JHas(unit.payload, key)}

\* C22: a payload that lacks one of protocol_version, protocol_id, uuid,
\* transaction, from, content fails to decode; with all of them it decodes
\* to the values sent, a missing passkey decodes to absent and a member the
\* schema does not know is ignored.
C22_RequiredKeys ==
    unit.received # <<>>
    => IF MissingKeys \cap RequiredKeys # {}
       THEN unit.received[1].raised
       ELSE /\ ~unit.received[1].raised
            /\ unit.received[1].value
               = [unit.p EXCEPT !.passkey = IF "passkey" \in MissingKeys
                                            THEN NONE ELSE @]

\* the part of C22 from_bytes does: transaction and content are required,
\* every other member is optional and decodes to the constructor's default
C22_AsCoded ==
    unit.received # <<>>
    => IF MissingKeys \cap {"transaction", "content"} # {}
       THEN unit.received[1].raised
       ELSE /\ ~unit.received[1].raised
            /\ unit.received[1].value
               = WirePackage(unit.p.transaction, unit.p.content,
                     IF "uuid" \in MissingKeys THEN NONE ELSE unit.p.uuid,
                     IF "from" \in MissingKeys THEN NONE ELSE unit.p.from_addr,
                     IF "protocol_version" \in MissingKeys THEN NONE
                     ELSE unit.p.protocol_version,
                     IF "protocol_id" \in MissingKeys THEN NONE
                     ELSE unit.p.protocol_id,
                     IF "passkey" \in MissingKeys THEN NONE ELSE unit.p.passkey)

(***************************************************************************)
(* Progress of admission.                                                  *)
(***************************************************************************)
\* the waiters of the connection semaphore that have no permit yet, in order
Ungranted ==
    SelectSeq(connection_semaphore.waiters,
              LAMBDA w : w \notin connection_semaphore.granted)

\* connection c has begun the work _handle_client does under its permit
Started(c) == pc[c] \notin {"new", "conn_wait"}

\* C23: when an admitted connection closes while connections wait on the
\* connection semaphore, the one waiting longest gets the permit in that
\* step, and a waiting connection that has a permit or sees a free one is
\* eventually admitted and starts protocol work.
C23_WaiterAdmitted ==
    /\ [][\A d \in Conns :
            (pc[d] = "closing" /\ pc'[d] = "closed" /\ Ungranted # <<>>)
            => Head(Ungranted) \in connection_semaphore'.granted]_vars
    /\ \A c \in Conns :
          (pc[c] = "conn_wait"
             /\ (c \in connection_semaphore.granted
                   \/ connection_semaphore.value > 0))
          ~> Started(c)

\* C23 witness: two permits, connection 1 has closed, connection 3, which
\* waited, holds the permit connection 1 released and has not resumed yet
C23_Witness ==
    /\ config.max_connections = 2
    /\ pc[1] = "closed"
    /\ pc[2] \notin {"new", "conn_wait", "closed"}
    /\ pc[3] = "conn_wait"
    /\ 3 \in connection_semaphore.granted

(***************************************************************************)
(* Cancellation.                                                           *)
(***************************************************************************)
\* C24: a handler that has started finishes before its connection closes:
\* a connection leaves handler dispatch only by the step that ends the
\* handler and writes its response or error response, cancelled or not.
C24_HandlerCompletes ==
    [][\A c \in Conns :
         (pc[c] = "handling" /\ pc'[c] # "handling")
         => /\ Len(out'[c]) = Len(out[c]) + 1
            /\ pc'[c] \notin {"closing", "closed"}]_vars

(***************************************************************************)
(* Handshake.                                                              *)
(***************************************************************************)
\* the handshake messages the server and the Client of this repository wrote
OwnHandshakeMessages ==
    {out[1][i] : i \in {j \in 1..Len(out[1]) : out[1][j].raw}}
    \cup {sent[2][i] : i \in {j \in 1..Len(sent[2]) : sent[2][j].raw}}

\* item is a handshake message of the given type that parses
IsHandshake(item, type) == item.raw /\ item.ok /\ item.type = type

PlainLen == PayloadLen(wire_to_json(unit.p))

\* C26: after a completed handshake a frame written by the Client or by the
\* server has FLAG_ENCRYPTED set, a payload of a 16-byte IV followed by
\* 16 * (n \div 16 + 1) bytes of ciphertext for a plaintext payload of n
\* bytes, and a length word that counts the whole frame; the receiver hands
\* from_bytes a header whose length word is 5 + n with the flags unchanged,
\* and gets the sender's Package.
C26_EncryptedFrame ==
    /\ unit.frame # <<>>
       => LET frame == unit.frame[1] IN
          /\ wire_is_encrypted(frame)
          /\ wire_is_response(frame) = unit.response
          /\ SubSeq(frame.payload, 1, 16) = unit.iv
          /\ Len(frame.payload) = 16 + 16 * (PlainLen \div 16 + 1)
          /\ unpack(SubSeq(frame.header, 1, 4)) = 5 + 16 + 16 * (PlainLen \div 16 + 1)
          /\ unpack(SubSeq(frame.header, 1, 4)) = Len(frame.header) + Len(frame.payload)
    /\ unit.received # <<>>
       => LET r == unit.received[1] IN
          /\ ~r.data.raised
          /\ unpack(SubSeq(r.data.value.header, 1, 4)) = 5 + PlainLen
          /\ r.data.value.header[5] = unit.frame[1].header[5]
          /\ r.package = Returned(unit.p)

\* C26 witness: a response whose plaintext payload is a whole number of
\* blocks long has been sent and received
C26_Witness ==
    /\ unit.response
    /\ PlainLen % 16 = 0
    /\ unit.received # <<>>
    /\ unit.received[1].package = Returned(unit.p)
    /\ Len(unit.frame[1].payload) = PlainLen + 32

(***************************************************************************)
(* The processing permit.                                                  *)
(***************************************************************************)
\* connections that hold a processing permit, resumed from acquire() or not
ProcessingHolders == InDispatch \cup processing_semaphore.granted

Written(j) ==
    SelectSeq(SubSeq(client[1].log, 1, j), LAMBDA e : e.call \in {"send", "ask"})

\* the number among the responses of the frame at place index of the
\* server's output
ResponseNo(index) == Len(SelectSeq(SubSeq(out[1], 1, index), LAMBDA f : ~f.raw))

\* call i is a send that returned, made when no response was outstanding,
\* and calls i+1..j are asks that each got a response frame
Desynchronised(i, j) ==
    LET log == client[1].log IN
    /\ log[i].call = "send"
    /\ log[i].error = NONE
    /\ \A m \in 1..(i - 1) : log[m].call \in {"connect", "ask"} /\ log[m].error = NONE
    /\ \A m \in (i + 1)..j :
          /\ log[m].call = "ask"
          /\ log[m].index \in 1..Len(out[1])
          /\ ~out[1][log[m].index].raw

NextIsPlain ==
    /\ pc[1] = "serving"
    /\ HasInput(1)
    /\ ~NextItem(1).raw
    /\ ~is_encrypted(NextItem(1))
    /\ FromBytesOK(NextItem(1))

\* C29: on a connection that holds a session key, a frame without
\* FLAG_ENCRYPTED is decoded as it stands and dispatched, not rejected, and
\* every response of the connection is encrypted under the session key;
\* the payload is decrypted only when the key exists and the flag is set.
C29_PlainAccepted ==
    /\ [][(NextIsPlain /\ nread'[1] = nread[1] + 1)
             => /\ pc'[1] = "handling"
                /\ package'[1] = from_bytes(NextItem(1))
                /\ handled'[1] = Append(handled[1], from_bytes(NextItem(1)))]_vars
    /\ [][(pc[1] = "serving" /\ handled'[1] # handled[1])
             => /\ ~NextItem(1).raw
                /\ LET decrypted == encryption[1] # NoKey /\ is_encrypted(NextItem(1))
                   IN /\ decrypted => DecryptOK(encryption[1], NextItem(1))
                      /\ package'[1] = from_bytes(IF decrypted
                                                  THEN Decrypt(encryption[1], NextItem(1))
                                                  ELSE NextItem(1))]_vars
    /\ [][(pc[1] = "handling" /\ pc'[1] # "handling")
             => /\ Len(out'[1]) = Len(out[1]) + 1
                /\ LET f == out'[1][Len(out'[1])] IN
                   /\ is_response(f)
                   /\ is_encrypted(f) <=> encryption[1] # NoKey
                   /\ f.key = encryption[1]
                   /\ from_bytes(Decrypt(encryption[1], f)).uuid = package[1].uuid]_vars

\* C29 witness: after the handshake the peer sent a request in the clear,
\* the handler ran on it and its response went out encrypted
C29_Witness ==
    /\ encryption[1] # NoKey
    /\ nread[1] = 2
    /\ ~sent[1][2].raw
    /\ ~is_encrypted(sent[1][2])
    /\ handled[1] = <<from_bytes(sent[1][2])>>
    /\ pc[1] = "serving"
    /\ Len(Responses(1)) = 1
    /\ is_encrypted(Responses(1)[1])
    /\ Responses(1)[1].key = encryption[1]

(***************************************************************************)
(* The processing permit and the response write.                           *)
(***************************************************************************)
\* connections waiting in writer.drain()
Draining == {c \in Conns : pc[c] = "draining"}

\* connections that hold a processing permit
DrainHolders == InDispatch \cup Draining \cup processing_semaphore.granted

\* C30: the processing permit is held until the response or error response
\* has been written and drain() has returned; a connection whose peer does
\* not read stays in drain() with its permit, and while handle_connections
\* connections are in drain() no handler of any connection starts.
C30_HeldThroughDrain ==
    /\ [](/\ processing_semaphore.value
             = config.handle_connections - Cardinality(DrainHolders)
          /\ Cardinality(Draining) = config.handle_connections
             => /\ InDispatch = {}
                /\ processing_semaphore.granted = {}
                /\ SemLocked(processing_semaphore))
    /\ [][\A c \in Conns :
            /\ (pc[c] = "handling" /\ pc'[c] # "handling")
               => /\ out'[c] = Append(out[c], send_package(ResponseFor(package[c]),
                                                           encryption[c]))
                  /\ Len(out'[c]) - unit'[c] > MaxBuffered
                     => /\ pc'[c] = "draining"
                        /\ processing_semaphore' = processing_semaphore
            /\ (c \in DrainHolders /\ c \notin DrainHolders')
               => /\ Len(out'[c]) = Len(handled'[c])
                  /\ Len(out'[c]) - unit'[c] <= MaxBuffered \/ eof[c]
            /\ (pc[c] = "draining" /\ Backlog(c) > MaxBuffered /\ ~eof[c])
               => /\ pc'[c] = "draining"
                  /\ c \in DrainHolders'
            /\ Cardinality(Draining) = config.handle_connections
               => (pc'[c] = "handling" => pc[c] = "handling")]_vars

\* C30 witness: the peer of connection 1 reads nothing; connection 1 waits
\* in drain() with the only processing permit, its response written, and
\* connection 2, its request read and decoded, waits for a permit
C30_Witness ==
    /\ config.handle_connections = 1
    /\ pc[1] = "draining"
    /\ unit[1] = 0
    /\ Len(out[1]) = Len(handled[1])
    /\ processing_semaphore.value = 0
    /\ pc[2] = "proc_wait"
    /\ package[2] # NoPackage
    /\ 2 \notin processing_semaphore.granted

(***************************************************************************)
(* Progress under both semaphores.                                         *)
(***************************************************************************)
\* connections queued on the processing semaphore
ProcessingWaiters == {processing_semaphore.waiters[i] :
                         i \in 1..Len(processing_semaphore.waiters)}

\* C31: a processing permit is asked for and held only under a connection
\* permit and is back before the connection permit is released, so no more
\* processing permits than connection permits are out; with every ready
\* task run, every decoded request eventually has its response on the
\* connection, and every connection that holds a connection permit and
\* whose peer has closed eventually is closed with the permit released.
C31_NoDeadlock ==
    /\ [](/\ ProcessingWaiters \cup ProcessingHolders \subseteq Admitted
          /\ connection_semaphore.value
                = config.max_connections - Cardinality(PermitHolders)
          /\ config.handle_connections - processing_semaphore.value
                <= config.max_connections - connection_semaphore.value)
    /\ [][\A c \in Conns :
            (pc[c] = "closing" /\ pc'[c] = "closed")
            => /\ c \notin ProcessingWaiters \cup ProcessingHolders
               /\ connection_semaphore' = SemRelease(connection_semaphore)
               /\ processing_semaphore' = processing_semaphore]_vars
    /\ [](\A c \in Conns : \A n \in 1..Len(Responses(c)) :
             /\ n <= Len(handled[c])
             /\ PeerDecode(c, Responses(c)[n]).uuid = handled[c][n].uuid)
    /\ \A c \in Conns :
          (pc[c] \in {"proc_wait", "handling"})
          ~> (pc[c] \notin {"proc_wait", "handling"}
                 /\ Len(Responses(c)) = Len(handled[c]))
    /\ \A c \in Conns :
          (eof[c] /\ c \in PermitHolders)
          ~> (pc[c] = "closed" /\ c \notin PermitHolders)

\* C31 witness: one processing permit; connection 1 has answered its
\* request and given the permit back, connection 2, whose peer has closed,
\* waited for it and holds it now, about to resume into its handler
C31_Witness ==
    /\ config.handle_connections = 1
    /\ Len(Responses(1)) = 1
    /\ pc[1] \notin {"proc_wait", "handling"}
    /\ pc[2] = "proc_wait"
    /\ eof[2]
    /\ 2 \in processing_semaphore.granted
    /\ processing_semaphore.value = 0

====
